---- MODULE Spec2Model ----
(***************************************************************************)
(* Model of mediadevices-ffmpeg: the ffmpeg process supervisor             *)
(* (process.go), the raw video frame reader (VideoReader, parseYUV420p-    *)
(* Frame) and the H264 RTP packetizer (RTPReader).                         *)
(*                                                                         *)
(* The module holds several specifications over one set of variables;      *)
(* each leaves the variables of the other components unchanged:            *)
(*   SpecProc   ffmpegProcess: stderr drain, LastStderr, Stop              *)
(*   SpecRTP    RTPReader: Read, ReadMultiple, nalToRTP, nalToRTPMultiple  *)
(*   SpecFrame  parseYUV420pFrame applied to arbitrary buffers             *)
(*   SpecVideo  VideoReader.Read over a running ffmpegProcess              *)
(***************************************************************************)
EXTENDS Integers, Sequences, FiniteSets, TLC

(***************************************************************************)
(* Bounds of the model                                                     *)
(***************************************************************************)
\* number of writes the external process makes to its stderr (SpecProc)
MaxStderrWrites == 3
\* number of LastStderr calls explored
MaxSnapshots == 1
\* length in bytes of the longest NAL unit handed to the packetizer
MaxNalLen == 5
\* number of RTPReader.Read / ReadMultiple calls explored
MaxRtpCalls == 2
\* largest width and height handed to parseYUV420pFrame (SpecFrame)
MaxDim == 4
\* number of writes the external process makes to its stdout (SpecVideo)
MaxStdoutWrites == 2
\* number of VideoReader.Read calls explored
MaxVideoReads == 2
\* the clock stops advancing inside a blocked read at this time (ms)
MaxTime == 6000
\* longest buffer of arbitrary bytes given to parseS16LEChunk
MaxAudLen == 4
\* largest channel count given to parseS16LEChunk
MaxChannels == 3
\* longest buffer given to parseH264Bitstream
MaxPrsLen == 9
\* most NAL units in the stream the process writes to an H264VideoReader
MaxUnits == 3
\* most Read calls on an H264VideoReader
MaxH264Reads == 3

\* writes the process makes to the AudioReader's pipe; Read calls made
MaxAudioWrites == 2

MaxAudioReads == 2

\* MediaStream objects: the one GetUserMedia returned and its clones
MaxStreams == 2

(***************************************************************************)
(* Program constants                                                       *)
(***************************************************************************)
stderrBufSize == 4096
drainBufLen == 1024
\* RTPReader
ipUdpReserve == 20
rtpHeaderLen == 12
fuReserve == 14
defaultMtu == 1200
maxMtu == 1500
tsIncrement == 3000
fuType == 28
\* VideoReader, in milliseconds
firstFrameTimeout == 5000
firstFrameRetryInterval == 50
\* make([]byte, 4096) in H264VideoReader.Read
h264BufLen == 4096

VARIABLES
  \* ---- ffmpegProcess and the external process it supervises ----
  procAlive,     \* the external process runs (it holds the pipes' write ends)
  errLeft,       \* writes to stderr the process may still make
  errWritten,    \* bytes the process has written to its stderr pipe so far
  errRead,       \* bytes drainStderr has read out of the pipe so far
  errAppended,   \* bytes drainStderr has appended to stderrBuf so far
  errClosed,     \* cmd.Wait has closed the parent's ends of the pipes
  drainPc,       \* drainStderr: "read" (at r.Read), "append", "done"
  drainChunk,    \* buf[:n] of the drain task, read and not yet appended
  stderrBuf,     \* p.stderrBuf
  done,          \* p.done is closed
  cancelled,     \* p.cancel() has been called (the command's context)
  stopPc,        \* Stop: "idle", "cancelled", "joined", "returned"
  waitCalls,     \* number of cmd.Wait calls made
  snapshot,      \* the string the last LastStderr call returned
  snapN,         \* errAppended when that call held the mutex
  snapCalls,     \* number of LastStderr calls made
  snapAfterStop, \* that call was made after Stop had returned
  stopBacklog    \* bytes written and not yet appended when Stop was called

procVars == <<procAlive, errLeft, errWritten, errRead, errAppended, errClosed,
              drainPc, drainChunk, stderrBuf, done, cancelled, stopPc,
              waitCalls, snapshot, snapN, snapCalls, snapAfterStop,
              stopBacklog>>

VARIABLES
  \* ---- RTPReader ----
  mtu,           \* r.mtu
  ssrc,          \* r.ssrc
  seq,           \* r.seq (uint16)
  ts,            \* r.ts (uint32, as << high half, low half >>)
  sps,           \* r.sps (<<>> is nil)
  pps,           \* r.pps (<<>> is nil)
  rtpCalls,      \* number of Read / ReadMultiple calls made
  rtpLast,       \* the last call: its NAL unit, what it produced and returned
  rtpEmitted     \* sequence numbers of all packets returned, in emission order

rtpVars == <<mtu, ssrc, seq, ts, sps, pps, rtpCalls, rtpLast, rtpEmitted>>

VARIABLES
  \* ---- parseYUV420pFrame applied to a buffer ----
  frmW,          \* width
  frmH,          \* height
  frmData,       \* data
  frmResult      \* what the call returned

frameVars == <<frmW, frmH, frmData, frmResult>>

VARIABLES
  \* ---- VideoReader over the process's stdout ----
  vidW,          \* r.width
  vidH,          \* r.height
  vidFrameSize,  \* r.frameSize
  vidBuf,        \* r.buf
  firstFrame,    \* r.firstFrame
  outLeft,       \* writes to stdout the process may still make
  outWritten,    \* bytes the process has written to its stdout pipe so far
  outRead,       \* bytes read out of the stdout pipe so far
  now,           \* the clock, in milliseconds
  vrPc,          \* Read: "idle", "loop", "readfull", "sleep", "normal"
  vrDeadline,    \* deadline of the running first-frame loop
  vrLastErr,     \* lastErr
  vrStart,       \* the clock when the running Read was called
  vrRetrying,    \* the running Read has had an io.ReadFull fail
  vrPrevReturn,  \* the clock when its last io.ReadFull returned
  vrGap,         \* shortest time between a failed io.ReadFull and the next
  vrResult,      \* what the last Read returned
  vrCalls,       \* number of Read calls made
  vrFrames,      \* number of frames Read has returned
  vrHeld         \* the frames Read has returned, as the caller holds them

vidVars == <<vidW, vidH, vidFrameSize, vidBuf, firstFrame, outLeft, outWritten,
             outRead, now, vrPc, vrDeadline, vrLastErr, vrStart, vrRetrying,
             vrPrevReturn, vrGap, vrResult, vrCalls, vrFrames, vrHeld>>

VARIABLES
  \* ---- parseS16LEChunk applied to a buffer ----
  audData,       \* data
  audCh,         \* channels
  audRate,       \* sampleRate
  audResult      \* what the call returned

audVars == <<audData, audCh, audRate, audResult>>

VARIABLES
  \* ---- parseH264Bitstream applied to a buffer ----
  prsData,       \* data
  prsResult      \* what the call returned: [kind, nalus]

prsVars == <<prsData, prsResult>>

VARIABLES
  \* ---- H264VideoReader over the process's stdout ----
  hUnits,        \* the NAL units the process writes: [h, len] each
  hWritten,      \* bytes the process has written to its stdout pipe so far
  hRead,         \* bytes read out of the stdout pipe so far
  hResult,       \* what the last Read returned
  hCalls,        \* number of Read calls that returned
  hReturned      \* the NAL units Read has returned, in order

h264Vars == <<hUnits, hWritten, hRead, hResult, hCalls, hReturned>>

VARIABLES
  \* ---- AudioReader over the process's stdout ----
  arArgs,        \* <<sampleRate, channels>> given to newAudioReaderInternal
  arRate,        \* r.sampleRate
  arCh,          \* r.channels
  arSpc,         \* r.samplesPerChannel
  arBufLen,      \* len(r.buf)
  arLeft,        \* writes to stdout the process may still make
  arWritten,     \* bytes the process has written to its stdout pipe so far
  arRead,        \* bytes read out of the stdout pipe so far
  arResult,      \* what the last Read returned
  arCalls        \* number of Read calls that returned

arVars == <<arArgs, arRate, arCh, arSpc, arBufLen, arLeft, arWritten, arRead,
            arResult, arCalls>>

VARIABLES
  \* ---- MediaStreamTrack and MediaStream objects ----
  trk,           \* the tracks: [kind, readyState, videoReader, audioReader, proc]
  strm,          \* the streams: [made, tracks, active, origin]
  trkLast,       \* the last call: [op, on, tracks, result, tick]
  trkRead        \* a Read running beside the other calls: [pc, op, on, result]

trkVars == <<trk, strm, trkLast, trkRead>>

VARIABLES
  \* ---- the global configuration and the device discovery cache ----
  globalConfig,  \* the package's configuration: [FFmpegPath, Verbose]
  configMu,      \* its RWMutex: [w: the goroutine holding it for writing, r: the readers]
  initOnce,      \* the sync.Once of the discovery: [done, m: the goroutine inside Do]
  cachedDevices, \* the device list the discovery stored
  cachedDevErr,  \* the error the discovery stored
  gor,           \* the calling goroutines: [pc, op, cfg, ret, last]
  cfgHist,       \* what happened: [discovered, path, seen, lastSet]
  cfgCalls       \* number of calls started

cfgVars == <<globalConfig, configMu, initOnce, cachedDevices, cachedDevErr,
             gor, cfgHist, cfgCalls>>

VARIABLES
  \* ---- descendants of the external process (environment) ----
  descAlive      \* a descendant that inherited the pipes' write ends runs

vars == <<procVars, rtpVars, frameVars, vidVars, audVars, prsVars, h264Vars,
          arVars, cfgVars, trkVars, descAlive>>

Min(a, b) == IF a < b THEN a ELSE b

(***************************************************************************)
(* Byte strings.  The code never looks at the value of a diagnostic or     *)
(* video byte, it only moves bytes around, so a byte is identified by its  *)
(* position in the stream it was read from.  A byte string is held as the  *)
(* sequence of its maximal runs of consecutive stream bytes: the run       *)
(* [lo |-> a, hi |-> b] stands for stream bytes a+1 .. b.  Two strings are *)
(* equal iff their run sequences are equal.                                *)
(***************************************************************************)
\* bytes lo+1 .. hi of a stream
StreamBytes(lo, hi) == IF hi > lo THEN << [lo |-> lo, hi |-> hi] >> ELSE <<>>

RECURSIVE BLen(_)
\* len(b)
BLen(b) == IF b = <<>> THEN 0 ELSE (Head(b).hi - Head(b).lo) + BLen(Tail(b))

\* append(a, b...)
BConcat(a, b) ==
  IF a = <<>> THEN b
  ELSE IF b = <<>> THEN a
  ELSE IF a[Len(a)].hi = b[1].lo
    THEN SubSeq(a, 1, Len(a) - 1)
           \o << [lo |-> a[Len(a)].lo, hi |-> b[1].hi] >>
           \o Tail(b)
    ELSE a \o b

RECURSIVE BDrop(_, _)
\* b[k:]
BDrop(b, k) ==
  IF k = 0 \/ b = <<>> THEN b
  ELSE LET s == Head(b)
           sz == s.hi - s.lo
       IN IF k >= sz THEN BDrop(Tail(b), k - sz)
          ELSE << [lo |-> s.lo + k, hi |-> s.hi] >> \o Tail(b)

RECURSIVE BTake(_, _)
\* b[:k]
BTake(b, k) ==
  IF k = 0 \/ b = <<>> THEN <<>>
  ELSE LET s == Head(b)
           sz == s.hi - s.lo
       IN IF k >= sz THEN << s >> \o BTake(Tail(b), k - sz)
          ELSE << [lo |-> s.lo, hi |-> s.lo + k] >>

\* b[from:to]
BSlice(b, from, to) == BTake(BDrop(b, from), to - from)

\* sizes of the writes the external process makes to stderr
WriteSizes == {1, 700, 1024, 2500}

(***************************************************************************)
(* process.go:66-72  append buf[:n], keep the last stderrBufSize bytes     *)
(***************************************************************************)
AppendTrimHead(buf, chunk) ==
  LET b == BConcat(buf, chunk)
  IN IF BLen(b) > stderrBufSize THEN BSlice(b, 0, stderrBufSize) ELSE b

AppendTrim(buf, chunk) ==
  LET b == BConcat(buf, chunk)
  IN IF BLen(b) > stderrBufSize
       THEN BSlice(b, BLen(b) - stderrBufSize, BLen(b))
       ELSE b

(***************************************************************************)
(* startProcess: the state right after a successful start                  *)
(***************************************************************************)
\* some process still holds the write ends of the stdout and stderr pipes
WriteEndOpen == procAlive \/ descAlive

ProcInit(writes) ==
  /\ descAlive = FALSE
  /\ procAlive = TRUE
  /\ errLeft = writes
  /\ errWritten = 0
  /\ errRead = 0
  /\ errAppended = 0
  /\ errClosed = FALSE
  /\ drainPc = "read"
  /\ drainChunk = <<>>
  /\ stderrBuf = <<>>
  /\ done = FALSE
  /\ cancelled = FALSE
  /\ stopPc = "idle"
  /\ waitCalls = 0
  /\ snapshot = <<>>
  /\ snapN = 0
  /\ snapCalls = 0
  /\ snapAfterStop = FALSE
  /\ stopBacklog = 0

(***************************************************************************)
(* The external process (environment)                                      *)
(***************************************************************************)
\* the process writes w bytes of diagnostics, w one of sizes
ProcWriteStderrOf(sizes) ==
  /\ procAlive
  /\ errLeft > 0
  /\ \E w \in sizes :
       errWritten' = errWritten + w
  /\ errLeft' = errLeft - 1
  /\ UNCHANGED <<procAlive, errRead, errAppended, errClosed, drainPc,
                 drainChunk, stderrBuf, done, cancelled, stopPc, waitCalls,
                 snapshot, snapN, snapCalls, snapAfterStop, stopBacklog>>

ProcWriteStderr == ProcWriteStderrOf(WriteSizes)

\* the process exits by itself: the write ends of its pipes close
ProcExit ==
  /\ procAlive
  /\ procAlive' = FALSE
  /\ UNCHANGED <<errLeft, errWritten, errRead, errAppended, errClosed, drainPc,
                 drainChunk, stderrBuf, done, cancelled, stopPc, waitCalls,
                 snapshot, snapN, snapCalls, snapAfterStop, stopBacklog>>

\* the process starts a descendant, which inherits its stdout and stderr
ProcFork ==
  /\ procAlive
  /\ ~descAlive
  /\ descAlive' = TRUE
  /\ UNCHANGED procVars

\* the descendant exits by itself
DescExit ==
  /\ descAlive
  /\ descAlive' = FALSE
  /\ UNCHANGED procVars

\* exec.CommandContext: once the context is cancelled the process is killed
\* (os.Process.Kill on the process started; no process group is set up)
ProcKilled ==
  /\ procAlive
  /\ cancelled
  /\ procAlive' = FALSE
  /\ UNCHANGED <<errLeft, errWritten, errRead, errAppended, errClosed, drainPc,
                 drainChunk, stderrBuf, done, cancelled, stopPc, waitCalls,
                 snapshot, snapN, snapCalls, snapAfterStop, stopBacklog>>

(***************************************************************************)
(* drainStderr (process.go:61-78)                                          *)
(***************************************************************************)
\* n, err := r.Read(buf): blocks while the pipe is empty and open
DrainRead ==
  /\ drainPc = "read"
  /\ LET avail == errWritten - errRead
     IN \/ /\ ~errClosed
           /\ avail > 0
           /\ LET n == Min(drainBufLen, avail)
              IN /\ drainChunk' = StreamBytes(errRead, errRead + n)
                 /\ errRead' = errRead + n
           /\ drainPc' = "append"
           /\ done' = done
        \/ /\ \/ errClosed
              \/ avail = 0 /\ ~WriteEndOpen
           \* n = 0, err # nil: return; the deferred close(p.done) runs
           /\ drainPc' = "done"
           /\ done' = TRUE
           /\ UNCHANGED <<drainChunk, errRead>>
  /\ UNCHANGED <<procAlive, errLeft, errWritten, errAppended, errClosed,
                 stderrBuf, cancelled, stopPc, waitCalls, snapshot, snapN,
                 snapCalls, snapAfterStop, stopBacklog>>

\* the mutex-protected section, lines 67-72
DrainAppend ==
  /\ drainPc = "append"
  /\ stderrBuf' = AppendTrim(stderrBuf, drainChunk)
  /\ errAppended' = errAppended + BLen(drainChunk)
  /\ drainChunk' = <<>>
  /\ drainPc' = "read"
  /\ UNCHANGED <<procAlive, errLeft, errWritten, errRead, errClosed, done,
                 cancelled, stopPc, waitCalls, snapshot, snapN, snapCalls,
                 snapAfterStop, stopBacklog>>

(***************************************************************************)
(* LastStderr (process.go:95-99): a copy taken under the mutex             *)
(***************************************************************************)
LastStderr ==
  /\ snapCalls < MaxSnapshots
  /\ snapshot' = stderrBuf
  /\ snapN' = errAppended
  /\ snapCalls' = snapCalls + 1
  /\ snapAfterStop' = (stopPc = "returned")
  /\ UNCHANGED <<procAlive, errLeft, errWritten, errRead, errAppended,
                 errClosed, drainPc, drainChunk, stderrBuf, done, cancelled,
                 stopPc, waitCalls, stopBacklog>>

(***************************************************************************)
(* Stop (process.go:86-91)                                                 *)
(***************************************************************************)
\* p.cancel()
StopCancel ==
  /\ stopPc = "idle"
  /\ cancelled' = TRUE
  /\ stopPc' = "cancelled"
  /\ stopBacklog' = errWritten - errAppended
  /\ UNCHANGED <<procAlive, errLeft, errWritten, errRead, errAppended,
                 errClosed, drainPc, drainChunk, stderrBuf, done, waitCalls,
                 snapshot, snapN, snapCalls, snapAfterStop>>

\* <-p.done
StopJoinNoWait ==
  /\ stopPc = "cancelled"
  /\ stopPc' = "joined"
  /\ UNCHANGED <<procAlive, errLeft, errWritten, errRead, errAppended,
                 errClosed, drainPc, drainChunk, stderrBuf, done, cancelled,
                 waitCalls, snapshot, snapN, snapCalls, snapAfterStop, stopBacklog>>

StopJoin ==
  /\ stopPc = "cancelled"
  /\ done
  /\ stopPc' = "joined"
  /\ UNCHANGED <<procAlive, errLeft, errWritten, errRead, errAppended,
                 errClosed, drainPc, drainChunk, stderrBuf, done, cancelled,
                 waitCalls, snapshot, snapN, snapCalls, snapAfterStop, stopBacklog>>

\* return p.cmd.Wait(): waits for the process to exit, then closes the
\* parent's ends of the stdout and stderr pipes
StopWait ==
  /\ stopPc = "joined"
  /\ ~procAlive
  /\ waitCalls' = waitCalls + 1
  /\ errClosed' = TRUE
  /\ stopPc' = "returned"
  /\ UNCHANGED <<procAlive, errLeft, errWritten, errRead, errAppended,
                 drainPc, drainChunk, stderrBuf, done, cancelled, snapshot,
                 snapN, snapCalls, snapAfterStop, stopBacklog>>

(***************************************************************************)
(* H264 NAL units (h264_reader.go:26-36, 235-243)                          *)
(***************************************************************************)
NALUTypeSPS == 7
NALUTypePPS == 8
NALUTypeIDR == 5

IsKeyframeIDROnly(t) == t = NALUTypeIDR

\* H264NaluType.IsKeyframe
IsKeyframe(t) == t = NALUTypeSPS \/ t = NALUTypePPS \/ t = NALUTypeIDR

\* the NALUnit parseH264Bitstream builds from the bytes between start codes
NewNALUnit(data) ==
  [Type |-> data[1] % 32, Data |-> data, Keyframe |-> IsKeyframe(data[1] % 32)]

\* first bytes of the NAL units explored: F/NRI/type
\*   0x65 IDR, 0x41 non-IDR slice, 0x67 SPS, 0x68 PPS, 0x06 SEI (NRI 0)
NalHeaders == {101, 65, 103, 104, 6}

\* the NAL units H264VideoReader.Read may hand over: never empty
NalInputs ==
  { [i \in 1..n |-> IF i = 1 THEN h ELSE (h + 37 * i) % 256] :
      h \in NalHeaders, n \in 1..MaxNalLen }

(***************************************************************************)
(* NewRTPReader (h264_reader.go:419-436)                                   *)
(***************************************************************************)
\* values of the mtu argument explored
MtuInputs == {0, 32, 33, 34, 35, 36, 1501}
\* values of the initialSSRC argument explored (uint32)
SsrcInputs == {0, 65534, 131071}

NormalizeMtu(m) == IF m <= 0 \/ m > maxMtu THEN defaultMtu ELSE m

NewRTPReader(initialSSRC, m) ==
  /\ ssrc = initialSSRC
  /\ seq = initialSSRC % 65536
  /\ ts = <<0, 0>>
  /\ mtu = NormalizeMtu(m)
  /\ sps = <<>>
  /\ pps = <<>>

(***************************************************************************)
(* nextSeq, nextTS (h264_reader.go:589-598)                                *)
(***************************************************************************)
nextSeq(s) == (s + 1) % 65536

\* r.ts is a uint32, held as << high 16 bits, low 16 bits >>: the addition
\* wraps at 2^32
nextTS(t) ==
  LET low == t[2] + tsIncrement
  IN << (t[1] + low \div 65536) % 65536, low % 65536 >>

(***************************************************************************)
(* nalToRTPMultiple (h264_reader.go:526-587).  The result is               *)
(*   status  "ok"    the call returned packets                             *)
(*           "panic" a slice expression went out of range                  *)
(*           "hang"  the fragment loop makes no progress and never ends    *)
(*   packets the packets built, seq / ts the reader's counters afterwards  *)
(***************************************************************************)
maxPayloadSize(m) == m - ipUdpReserve

SingleFitsNoHeader(nalLen, m) == nalLen <= maxPayloadSize(m)

\* line 497 / 530
SingleFits(nalLen, m) == nalLen <= maxPayloadSize(m) - rtpHeaderLen

Packet(marker, sn, t, payload) ==
  [Version |-> 2, Marker |-> marker, PayloadType |-> 96,
   SequenceNumber |-> sn, Timestamp |-> t, SSRC |-> ssrc, Payload |-> payload]

\* lines 531-543 (and 499-509): the single NAL unit packet
SinglePacket(nal, s, t) ==
  [status |-> "ok",
   packets |-> << Packet(TRUE, nextSeq(s), nextTS(t), nal.Data) >>,
   seq |-> nextSeq(s), ts |-> nextTS(t)]

\* line 547
FuIndicator(b0) == fuType + (b0 \div 32) * 32

\* lines 555-561
FuHeader(offset, isLast) ==
  (IF offset = 0 THEN 128 ELSE 0) + (IF isLast THEN 64 ELSE 0)

FragMarkerAlways(isLast, keyframe) == isLast

\* line 574
FragMarker(isLast, keyframe) == isLast /\ keyframe

\* lines 563-566
ChunkSize(remaining, m) ==
  IF remaining > maxPayloadSize(m) - fuReserve
    THEN maxPayloadSize(m) - fuReserve
    ELSE remaining

RECURSIVE FragLoop(_, _, _, _, _, _)
\* lines 553-584; pd is payloadData
FragLoop(nal, pd, offset, s, t, packets) ==
  IF ~(offset < Len(pd))
    THEN [status |-> "ok", packets |-> packets, seq |-> s, ts |-> t]
    ELSE
      LET isLast == offset + maxPayloadSize(mtu) - fuReserve >= Len(pd)
          chunkSize == ChunkSize(Len(pd) - offset, mtu)
      IN IF chunkSize < 0
           \* payloadData[offset:offset+chunkSize]: high bound below low bound
           THEN [status |-> "panic", packets |-> packets, seq |-> s, ts |-> t]
         ELSE IF chunkSize = 0
           \* offset never advances: packets are appended without end
           THEN [status |-> "hang", packets |-> packets, seq |-> s, ts |-> t]
         ELSE
           LET payload == << FuIndicator(nal.Data[1]), FuHeader(offset, isLast) >>
                            \o SubSeq(pd, offset + 1, offset + chunkSize)
               pkt == Packet(FragMarker(isLast, nal.Keyframe),
                             nextSeq(s), nextTS(t), payload)
           IN FragLoop(nal, pd, offset + chunkSize, nextSeq(s), nextTS(t),
                       Append(packets, pkt))

nalToRTPMultiple(nal, s, t) ==
  IF SingleFits(Len(nal.Data), mtu)
    THEN SinglePacket(nal, s, t)
    ELSE FragLoop(nal, Tail(nal.Data), 0, s, t, <<>>)

(***************************************************************************)
(* nalToRTP (h264_reader.go:493-523): what Read returns.  returned is the  *)
(* sequence of packets handed to the caller; status "error" is the         *)
(* "failed to create RTP packet" return.                                   *)
(***************************************************************************)
nalToRTP(nal, s, t) ==
  IF SingleFits(Len(nal.Data), mtu)
    THEN SinglePacket(nal, s, t) @@ [returned |-> SinglePacket(nal, s, t).packets]
    ELSE LET r == nalToRTPMultiple(nal, s, t)
         IN IF r.status # "ok" THEN r @@ [returned |-> <<>>]
            ELSE IF Len(r.packets) > 0
              THEN r @@ [returned |-> << r.packets[1] >>]
              ELSE [r EXCEPT !.status = "error"] @@ [returned |-> <<>>]

SeqsOf(packets) == [i \in 1..Len(packets) |-> packets[i].SequenceNumber]

\* no call has been made yet
NoCall ==
  [op |-> "none", status |-> "none", nal |-> NewNALUnit(<<0>>), packets |-> <<>>,
   returned |-> <<>>, seqBefore |-> 0, tsBefore |-> <<0, 0>>]

RtpInit ==
  /\ \E i \in SsrcInputs, m \in MtuInputs : NewRTPReader(i, m)
  /\ rtpCalls = 0
  /\ rtpLast = NoCall
  /\ rtpEmitted = <<>>

\* a reader that is not used
RtpParked ==
  /\ NewRTPReader(0, 0)
  /\ rtpCalls = 0
  /\ rtpLast = NoCall
  /\ rtpEmitted = <<>>

\* the reader can be called: the last call returned or panicked
RtpCallable ==
  /\ rtpCalls < MaxRtpCalls
  /\ rtpLast.status # "hang"

\* r.reader.Read() reports the end of the stream (or a read error): both
\* Read and ReadMultiple return the error, lines 441-444 and 456-459
RTPReadEOF ==
  /\ RtpCallable
  /\ \E o \in {"Read", "ReadMultiple"} :
       rtpLast' = [op |-> o, status |-> "eof", nal |-> NewNALUnit(<<0>>),
                   packets |-> <<>>, returned |-> <<>>,
                   seqBefore |-> seq, tsBefore |-> ts]
  /\ rtpCalls' = rtpCalls + 1
  /\ UNCHANGED <<mtu, ssrc, seq, ts, sps, pps, rtpEmitted>>

\* Read (h264_reader.go:439-451) with the NAL unit r.reader.Read() returned
RTPRead ==
  /\ RtpCallable
  /\ \E data \in NalInputs :
       LET nal == NewNALUnit(data)
           r == nalToRTP(nal, seq, ts)
       IN /\ rtpLast' = [op |-> "Read", status |-> r.status, nal |-> nal,
                         packets |-> r.packets, returned |-> r.returned,
                         seqBefore |-> seq, tsBefore |-> ts]
          /\ seq' = r.seq
          /\ ts' = r.ts
          /\ rtpEmitted' = rtpEmitted \o SeqsOf(r.returned)
  /\ rtpCalls' = rtpCalls + 1
  /\ UNCHANGED <<mtu, ssrc, sps, pps>>

\* ReadMultiple (h264_reader.go:454-476)
RTPReadMultiple ==
  /\ RtpCallable
  /\ \E data \in NalInputs :
       LET nal == NewNALUnit(data)
           r == nalToRTPMultiple(nal, seq, ts)
           returned == IF r.status = "ok" THEN r.packets ELSE <<>>
       IN /\ sps' = IF sps = <<>> /\ nal.Type = NALUTypeSPS THEN nal.Data ELSE sps
          /\ pps' = IF pps = <<>> /\ nal.Type = NALUTypePPS THEN nal.Data ELSE pps
          /\ rtpLast' = [op |-> "ReadMultiple", status |-> r.status, nal |-> nal,
                         packets |-> r.packets, returned |-> returned,
                         seqBefore |-> seq, tsBefore |-> ts]
          /\ seq' = r.seq
          /\ ts' = r.ts
          /\ rtpEmitted' = rtpEmitted \o SeqsOf(returned)
  /\ rtpCalls' = rtpCalls + 1
  /\ UNCHANGED <<mtu, ssrc>>

\* GetSPSPPS (h264_reader.go:488-490)
GetSPSPPS == <<sps, pps>>

(***************************************************************************)
(* parseYUV420pFrame (parse_video.go:11-39).  The planes are copies: each  *)
(* plane of the image is an array the call allocates, filled from data.    *)
(* A plane records the memory it lives in: an array of its own, or the     *)
(* range [lo, hi) of the array behind data.                                *)
(***************************************************************************)
PlaneAlias(lo, hi) == [own |-> FALSE, lo |-> lo, hi |-> hi]

\* make([]byte, hi-lo) and copy(plane, data[lo:hi]), lines 23-25 and 32-34
PlaneCopy(lo, hi) == [own |-> TRUE, lo |-> 0, hi |-> hi - lo]

parseYUV420pFrameSwapped(data, width, height) ==
  LET ySize == width * height
      cSize == ySize \div 4
      expected == ySize + 2 * cSize
  IN IF BLen(data) # expected
       THEN [kind |-> "error", expected |-> expected, got |-> BLen(data)]
       ELSE [kind |-> "image",
             Y |-> BSlice(data, 0, ySize),
             Cb |-> BDrop(data, ySize + cSize),
             Cr |-> BSlice(data, ySize, ySize + cSize),
             mem |-> [Y |-> PlaneCopy(0, ySize),
                      Cb |-> PlaneCopy(ySize + cSize, expected),
                      Cr |-> PlaneCopy(ySize, ySize + cSize)],
             YStride |-> width,
             CStride |-> (width + 1) \div 2,
             Rect |-> <<0, 0, width, height>>]

parseYUV420pFrame(data, width, height) ==
  LET ySize == width * height
      cSize == ySize \div 4
      expected == ySize + 2 * cSize
  IN IF BLen(data) # expected
       THEN [kind |-> "error", expected |-> expected, got |-> BLen(data)]
       ELSE [kind |-> "image",
             Y |-> BSlice(data, 0, ySize),
             Cb |-> BSlice(data, ySize, ySize + cSize),
             Cr |-> BDrop(data, ySize + cSize),
             mem |-> [Y |-> PlaneCopy(0, ySize),
                      Cb |-> PlaneCopy(ySize, ySize + cSize),
                      Cr |-> PlaneCopy(ySize + cSize, expected)],
             YStride |-> width,
             CStride |-> (width + 1) \div 2,
             Rect |-> <<0, 0, width, height>>]

\* newVideoReaderInternal, parse_audio.go:98
FrameSize(width, height) == (width * height * 3) \div 2

FrameInit ==
  /\ frmW \in 1..MaxDim
  /\ frmH \in 1..MaxDim
  /\ \E n \in 0..(FrameSize(MaxDim, MaxDim) + 1) : frmData = StreamBytes(0, n)
  /\ frmResult = [kind |-> "none"]

FrameParked ==
  /\ frmW = 1
  /\ frmH = 1
  /\ frmData = <<>>
  /\ frmResult = [kind |-> "none"]

\* one call of parseYUV420pFrame
FrameParse ==
  /\ frmResult.kind = "none"
  /\ frmResult' = parseYUV420pFrame(frmData, frmW, frmH)
  /\ UNCHANGED <<frmW, frmH, frmData>>

(***************************************************************************)
(* VideoReader (parse_audio.go:65-156)                                     *)
(***************************************************************************)
\* <<width, height>> of the readers explored
VideoDims == { <<2, 2>>, <<2, 1>> }

\* sizes of the writes the external process makes to stdout
OutWriteSizes == {3, 7}

\* size of the write the external process makes to stderr in SpecVideo
VideoStderrSizes == {700}

\* how much longer than asked time.Sleep may take (ms)
SleepJitter == {0, 50}

\* time that passes at once while a read is blocked (ms)
BlockTick == 2000

\* r.buf as make() leaves it: zero bytes, which are no bytes of the stream
ZeroBytes(n) == << [lo |-> 0 - n, hi |-> 0] >>

\* newVideoReaderInternal (parse_audio.go:78-108), the start succeeded
VideoInit ==
  /\ \E d \in VideoDims :
       /\ vidW = d[1]
       /\ vidH = d[2]
       /\ vidFrameSize = FrameSize(d[1], d[2])
       /\ vidBuf = ZeroBytes(FrameSize(d[1], d[2]))
  /\ firstFrame = TRUE
  /\ outLeft = MaxStdoutWrites
  /\ outWritten = 0
  /\ outRead = 0
  /\ now = 0
  /\ vrPc = "idle"
  /\ vrDeadline = 0
  /\ vrLastErr = "nil"
  /\ vrStart = 0
  /\ vrRetrying = FALSE
  /\ vrPrevReturn = 0
  /\ vrGap = firstFrameRetryInterval
  /\ vrResult = [kind |-> "none"]
  /\ vrCalls = 0
  /\ vrFrames = 0
  /\ vrHeld = <<>>

VideoParked ==
  /\ vidW = 1
  /\ vidH = 1
  /\ vidFrameSize = 1
  /\ vidBuf = <<>>
  /\ firstFrame = TRUE
  /\ outLeft = 0
  /\ outWritten = 0
  /\ outRead = 0
  /\ now = 0
  /\ vrPc = "idle"
  /\ vrDeadline = 0
  /\ vrLastErr = "nil"
  /\ vrStart = 0
  /\ vrRetrying = FALSE
  /\ vrPrevReturn = 0
  /\ vrGap = firstFrameRetryInterval
  /\ vrResult = [kind |-> "none"]
  /\ vrCalls = 0
  /\ vrFrames = 0
  /\ vrHeld = <<>>

\* the process writes w bytes of raw video
ProcWriteStdout ==
  /\ procAlive
  /\ outLeft > 0
  /\ \E w \in OutWriteSizes : outWritten' = outWritten + w
  /\ outLeft' = outLeft - 1
  /\ UNCHANGED <<vidW, vidH, vidFrameSize, vidBuf, firstFrame, outRead, now,
                 vrPc, vrDeadline, vrLastErr, vrStart, vrRetrying,
                 vrPrevReturn, vrGap, vrResult, vrCalls, vrFrames, vrHeld>>

(***************************************************************************)
(* io.ReadFull(r.proc, r.buf) over ffmpegProcess.Read (process.go:81-83),  *)
(* a read of the stdout pipe: it blocks while fewer than size bytes are    *)
(* there and the write end is open; at end of stream it returns what is    *)
(* there with io.EOF (nothing read) or io.ErrUnexpectedEOF; on a pipe that *)
(* cmd.Wait closed it fails at once.  n is the number of bytes consumed.   *)
(***************************************************************************)
ReadFullNonBlocking(avail, size, alive, closed) ==
  IF closed THEN [kind |-> "error", n |-> 0]
  ELSE IF avail >= size THEN [kind |-> "ok", n |-> size]
  ELSE IF avail = 0 THEN [kind |-> "EOF", n |-> 0]
  ELSE [kind |-> "ErrUnexpectedEOF", n |-> avail]

ReadFull(avail, size, alive, closed) ==
  IF closed THEN [kind |-> "error", n |-> 0]
  ELSE IF avail >= size THEN [kind |-> "ok", n |-> size]
  ELSE IF alive THEN [kind |-> "block", n |-> 0]
  ELSE IF avail = 0 THEN [kind |-> "EOF", n |-> 0]
  ELSE [kind |-> "ErrUnexpectedEOF", n |-> avail]

\* the outcome of io.ReadFull(r.proc, r.buf) in the current state
VrReadFull == ReadFull(outWritten - outRead, vidFrameSize, WriteEndOpen, errClosed)

\* r.buf after n bytes were read into it
BufAfter(n) == BConcat(StreamBytes(outRead, outRead + n), BDrop(vidBuf, n))

\* what Read returns after a full read, lines 124-128 and 151-155
ParsedResult(buf, off) ==
  LET img == parseYUV420pFrame(buf, vidW, vidH)
  IN IF img.kind = "image"
       THEN [kind |-> "frame", img |-> img, off |-> off, at |-> now,
             start |-> vrStart, first |-> firstFrame, framesBefore |-> vrFrames]
       \* return nil, parseErr: the parser's error as it is
       ELSE [kind |-> "parseErr", at |-> now, start |-> vrStart,
             first |-> firstFrame, framesBefore |-> vrFrames,
             hasStderr |-> FALSE, stderr |-> <<>>, appended |-> errAppended]

\* a failure return; stderr is r.proc.LastStderr() where the error carries it
Failure(kind, stderr) ==
  [kind |-> kind, stderr |-> stderr, lastErr |-> vrLastErr, at |-> now,
   start |-> vrStart, first |-> firstFrame, framesBefore |-> vrFrames,
   appended |-> errAppended, met |-> vrLastErr, hasStderr |-> kind # "eof"]

\* Read is called (lines 114-119); the reader is not used while Stop runs
VRCall ==
  /\ vrPc = "idle"
  /\ vrCalls < MaxVideoReads
  /\ stopPc \in {"idle", "returned"}
  /\ vrCalls' = vrCalls + 1
  /\ vrStart' = now
  /\ vrRetrying' = FALSE
  /\ vrLastErr' = "nil"
  /\ vrResult' = [kind |-> "none"]
  /\ IF firstFrame
       THEN vrDeadline' = now + firstFrameTimeout /\ vrPc' = "loop"
       ELSE vrDeadline' = vrDeadline /\ vrPc' = "normal"
  /\ UNCHANGED <<vidW, vidH, vidFrameSize, vidBuf, firstFrame, outLeft,
                 outWritten, outRead, now, vrPrevReturn, vrGap, vrFrames, vrHeld>>

\* for time.Now().Before(deadline), line 120; the timeout return, line 139
VRLoopCheck ==
  /\ vrPc = "loop"
  /\ IF now < vrDeadline
       THEN /\ vrPc' = "readfull"
            /\ vrRetrying' = vrRetrying
            /\ vrGap' = IF vrRetrying
                          THEN Min(vrGap, now - vrPrevReturn)
                          ELSE vrGap
            /\ vrResult' = vrResult
       ELSE /\ vrPc' = "idle"
            /\ vrResult' = Failure("timeout", stderrBuf)
            /\ UNCHANGED <<vrRetrying, vrGap>>
  /\ UNCHANGED <<vidW, vidH, vidFrameSize, vidBuf, firstFrame, outLeft,
                 outWritten, outRead, now, vrDeadline, vrLastErr, vrStart,
                 vrPrevReturn, vrCalls, vrFrames, vrHeld>>

\* r.firstFrame after a full first read: r.firstFrame = false, line 123
FirstFrameKept == TRUE

FirstFrameAfterRead == FALSE

\* the first-frame io.ReadFull returns, lines 121-134
VRFirstReadFull ==
  /\ vrPc = "readfull"
  /\ LET o == VrReadFull
     IN /\ o.kind # "block"
        /\ outRead' = outRead + o.n
        /\ vidBuf' = BufAfter(o.n)
        /\ \/ /\ o.kind = "ok"
              /\ firstFrame' = FirstFrameAfterRead
              /\ vrResult' = ParsedResult(BufAfter(o.n), outRead)
              /\ vrFrames' = IF ParsedResult(BufAfter(o.n), outRead).kind = "frame"
                               THEN vrFrames + 1 ELSE vrFrames
              /\ vrPc' = "idle"
              /\ UNCHANGED <<vrLastErr, vrRetrying, vrPrevReturn>>
           \/ /\ o.kind \in {"EOF", "ErrUnexpectedEOF"}
              /\ vrLastErr' = o.kind
              /\ vrRetrying' = TRUE
              /\ vrPrevReturn' = now
              /\ vrPc' = "sleep"
              /\ UNCHANGED <<firstFrame, vrResult, vrFrames>>
           \/ /\ o.kind = "error"
              /\ vrLastErr' = o.kind
              /\ vrResult' = [Failure("error", stderrBuf) EXCEPT !.lastErr = o.kind, !.met = o.kind]
              /\ vrPc' = "idle"
              /\ UNCHANGED <<firstFrame, vrFrames, vrRetrying, vrPrevReturn>>
  /\ UNCHANGED <<vidW, vidH, vidFrameSize, outLeft, outWritten, now,
                 vrDeadline, vrStart, vrGap, vrCalls>>
  \* the caller keeps every frame it was given
  /\ vrHeld' = IF vrResult'.kind = "frame"
                 THEN Append(vrHeld, vrResult'.img) ELSE vrHeld

\* time.Sleep(firstFrameRetryInterval), line 136
VRSleep ==
  /\ vrPc = "sleep"
  /\ \E j \in SleepJitter : now' = now + firstFrameRetryInterval + j
  /\ vrPc' = "loop"
  /\ UNCHANGED <<vidW, vidH, vidFrameSize, vidBuf, firstFrame, outLeft,
                 outWritten, outRead, vrDeadline, vrLastErr, vrStart,
                 vrRetrying, vrPrevReturn, vrGap, vrResult, vrCalls, vrFrames, vrHeld>>

\* the io.ReadFull of a later frame returns, lines 143-155
VRNormalReadFull ==
  /\ vrPc = "normal"
  /\ LET o == VrReadFull
     IN /\ o.kind # "block"
        /\ outRead' = outRead + o.n
        /\ vidBuf' = BufAfter(o.n)
        /\ \/ /\ o.kind = "ok"
              /\ vrResult' = ParsedResult(BufAfter(o.n), outRead)
              /\ vrFrames' = IF ParsedResult(BufAfter(o.n), outRead).kind = "frame"
                               THEN vrFrames + 1 ELSE vrFrames
           \/ /\ o.kind \in {"EOF", "ErrUnexpectedEOF"}
              \* return nil, io.EOF: the bare value, no stderr
              /\ vrResult' = [Failure("eof", <<>>) EXCEPT !.met = o.kind]
              /\ vrFrames' = vrFrames
           \/ /\ o.kind = "error"
              /\ vrResult' = [Failure("error", stderrBuf) EXCEPT !.lastErr = o.kind, !.met = o.kind]
              /\ vrFrames' = vrFrames
  /\ vrPc' = "idle"
  /\ UNCHANGED <<vidW, vidH, vidFrameSize, firstFrame, outLeft, outWritten,
                 now, vrDeadline, vrLastErr, vrStart, vrRetrying, vrPrevReturn,
                 vrGap, vrCalls>>
  \* the caller keeps every frame it was given
  /\ vrHeld' = IF vrResult'.kind = "frame"
                 THEN Append(vrHeld, vrResult'.img) ELSE vrHeld

\* time passes while io.ReadFull is blocked
VRBlocked ==
  /\ vrPc \in {"readfull", "normal"}
  /\ VrReadFull.kind = "block"
  /\ now < MaxTime
  /\ now' = now + BlockTick
  /\ UNCHANGED <<vidW, vidH, vidFrameSize, vidBuf, firstFrame, outLeft,
                 outWritten, outRead, vrPc, vrDeadline, vrLastErr, vrStart,
                 vrRetrying, vrPrevReturn, vrGap, vrResult, vrCalls, vrFrames, vrHeld>>

\* VideoReader.Close calls Stop (lines 159-164): not while Read runs
VRIdle == vrPc = "idle"

(***************************************************************************)
(* parseS16LEChunk (parse_audio.go:25-47)                                  *)
(***************************************************************************)
Uint16BE(b0, b1) == b1 + 256 * b0

\* binary.LittleEndian.Uint16(b): b[0] | b[1]<<8
Uint16LE(b0, b1) == b0 + 256 * b1

\* int16(u) of a uint16: the same 16 bits read as two's complement
Int16(u) == IF u >= 32768 THEN u - 65536 ELSE u

AudFrameSizeMono(channels) == 2

\* frameSize := channels * bytesPerSample, lines 26-27
AudFrameSize(channels) == channels * 2

parseS16LEChunk(data, channels, sampleRate) ==
  IF Len(data) % AudFrameSize(channels) # 0
    THEN [kind |-> "error", bytes |-> Len(data),
          frameSize |-> AudFrameSize(channels), channels |-> channels]
    ELSE LET totalSamples == Len(data) \div 2
         IN [kind |-> "chunk",
             Data |-> [i \in 1..totalSamples |->
                         Int16(Uint16LE(data[2 * i - 1], data[2 * i]))],
             Channels |-> channels,
             SampleRate |-> sampleRate,
             SamplesPerChannel |-> totalSamples \div channels]

\* byte values of the buffers explored
AudBytes == {0, 1, 127, 128, 255}

RECURSIVE BytesOfLen(_, _)
\* all byte strings of length n over the byte values B
BytesOfLen(B, n) ==
  IF n = 0 THEN { <<>> }
  ELSE { Append(t, b) : t \in BytesOfLen(B, n - 1), b \in B }

\* the inputs of TestParseS16LEChunk_Stereo (first four samples) and _Mono
\*   100, -100, 200, -200  and  0, 32767, -32768, 1000
StereoTestBytes == <<100, 0, 156, 255, 200, 0, 56, 255>>
MonoTestBytes == <<0, 0, 255, 127, 0, 128, 232, 3>>

AudInputs ==
  UNION { BytesOfLen(AudBytes, n) : n \in 0..MaxAudLen }
    \cup {StereoTestBytes, MonoTestBytes}

AudRates == {44100, 48000}

AudioInit ==
  /\ audData \in AudInputs
  /\ audCh \in 1..MaxChannels
  /\ audRate \in AudRates
  /\ audResult = [kind |-> "none"]

AudioParked ==
  /\ audData = <<>>
  /\ audCh = 1
  /\ audRate = 48000
  /\ audResult = [kind |-> "none"]

\* one call of parseS16LEChunk
AudioParse ==
  /\ audResult.kind = "none"
  /\ audResult' = parseS16LEChunk(audData, audCh, audRate)
  /\ UNCHANGED <<audData, audCh, audRate>>

(***************************************************************************)
(* parseH264Bitstream (h264_reader.go:195-249).  Positions are the code's  *)
(* 0-based indices: data[p] is d[p + 1].                                   *)
(***************************************************************************)
\* data[p] == 0 && data[p+1] == 0 && data[p+2] == 1
Is3(d, p) == d[p + 1] = 0 /\ d[p + 2] = 0 /\ d[p + 3] = 1

\* data[p] == 0 && data[p+1] == 0 && data[p+2] == 0 && data[p+3] == 1
Is4(d, p) == d[p + 1] = 0 /\ d[p + 2] = 0 /\ d[p + 3] = 0 /\ d[p + 4] = 1

SetMin(S) == CHOOSE x \in S : \A y \in S : x <= y

\* the first loop, lines 201-211: positions i <= p < len-3 where it breaks
StartHits(d, i) ==
  { p \in i..(Len(d) - 4) : Is3(d, p) \/ (p < Len(d) - 4 /\ Is4(d, p)) }

\* the second loop, lines 224-232: positions i <= q < len-4 where it breaks
NextHits(d, i) ==
  { q \in i..(Len(d) - 5) : Is4(d, q) \/ Is3(d, q) }

\* j when the second loop ends, lines 223-232
NalEnd(d, i) ==
  IF NextHits(d, i) # {} THEN SetMin(NextHits(d, i))
  ELSE IF i < Len(d) - 4 THEN Len(d) - 4 ELSE i

RECURSIVE ParseFrom(_, _)
\* the outer loop from position i: the <<i, j>> of every nalData = data[i:j]
\* that is appended, lines 199-246
ParseFrom(d, i) ==
  IF i >= Len(d) \/ StartHits(d, i) = {} THEN <<>>
  ELSE LET p == SetMin(StartHits(d, i))
           startCodeLen == IF Is3(d, p) THEN 3 ELSE 4
           from == p + startCodeLen
           j == NalEnd(d, from)
       IN IF from >= Len(d) THEN <<>>
          ELSE IF j > from THEN <<(<<from, j>>)>> \o ParseFrom(d, j)
          ELSE ParseFrom(d, j)

parseH264Bitstream(d) ==
  LET spans == ParseFrom(d, 0)
  IN [k \in 1..Len(spans) |->
        NewNALUnit(SubSeq(d, spans[k][1] + 1, spans[k][2]))]

\* bytes other than 0x00 and 0x01 in the buffers explored: 0x65 IDR,
\* 0x67 SPS, 0x68 PPS, 0x41 non-IDR slice
PrsHeaders == {101, 103, 104, 65}

\* the buffers explored: every string of 0x00, 0x01 and one other byte
ParseInit ==
  /\ \E n \in 0..MaxPrsLen, h \in PrsHeaders : prsData \in [1..n -> {0, 1, h}]
  /\ prsResult = [kind |-> "none", nalus |-> <<>>]

ParseParked ==
  /\ prsData = <<>>
  /\ prsResult = [kind |-> "none", nalus |-> <<>>]

\* one call of parseH264Bitstream
ParseCall ==
  /\ prsResult.kind = "none"
  /\ prsResult' = [kind |-> "parsed", nalus |-> parseH264Bitstream(prsData)]
  /\ UNCHANGED prsData

(***************************************************************************)
(* H264VideoReader (h264_reader.go:150-192) over the stdout of a process   *)
(* that writes an Annex-B stream: each NAL unit as 00 00 00 01, its header *)
(* byte and len-1 further bytes, none of them 0x00 or 0x01.                *)
(***************************************************************************)
\* payload lengths of the units the process writes
HUnitLens == {10, 8192}

\* header bytes of the first, second, third, fourth unit: SPS, PPS, IDR, slice
HHeaders == <<103, 104, 101, 65>>

\* a payload byte after the header (0xAA)
HFiller == 170

\* sizes of the writes the process makes to stdout
HWriteSizes == {4096}

RECURSIVE UnitStart(_, _)
\* stream offset of the start code of unit k
UnitStart(units, k) ==
  IF k = 1 THEN 0 ELSE UnitStart(units, k - 1) + 4 + units[k - 1].len

\* number of bytes of the whole stream
StreamLen(units) == UnitStart(units, Len(units) + 1)

RECURSIVE StreamContent(_, _)
\* the bytes of the units k, k+1, ... as the process writes them
StreamContent(units, k) ==
  IF k > Len(units) THEN <<>>
  ELSE <<0, 0, 0, 1, units[k].h>>
         \o [i \in 1..(units[k].len - 1) |-> HFiller]
         \o StreamContent(units, k + 1)

\* buf[:n] after n bytes were read from stream offset lo
Window(units, lo, n) == SubSeq(StreamContent(units, 1), lo + 1, lo + n)

H264Init ==
  /\ \E n \in 0..MaxUnits :
       \E lens \in [1..n -> HUnitLens] :
         hUnits = [k \in 1..n |-> [h |-> HHeaders[k], len |-> lens[k]]]
  /\ hWritten = 0
  /\ hRead = 0
  /\ hResult = [kind |-> "none", op |-> "none"]
  /\ hCalls = 0
  /\ hReturned = <<>>

H264Parked ==
  /\ hUnits = <<>>
  /\ hWritten = 0
  /\ hRead = 0
  /\ hResult = [kind |-> "none", op |-> "none"]
  /\ hCalls = 0
  /\ hReturned = <<>>

\* the process writes the next bytes of its stream
HProcWrite ==
  /\ procAlive
  /\ hWritten < StreamLen(hUnits)
  /\ \E w \in HWriteSizes : hWritten' = Min(hWritten + w, StreamLen(hUnits))
  /\ UNCHANGED <<hUnits, hRead, hResult, hCalls, hReturned>>

\* nalus[0] of the window read at stream offset lo: the unit NewNALUnit
\* builds, its Data named by the stream offsets it was taken from
FirstNal(buf, lo, span) ==
  [Type |-> buf[span[1] + 1] % 32,
   Keyframe |-> IsKeyframe(buf[span[1] + 1] % 32),
   Data |-> StreamBytes(lo + span[1], lo + span[2])]

\* H264VideoReader.Read, lines 170-192; the call returns when io.ReadFull
\* does.  The reader is not used while Stop runs.
H264VideoReaderRead(op) ==
  /\ hCalls < MaxH264Reads
  /\ stopPc \in {"idle", "returned"}
  /\ LET o == ReadFull(hWritten - hRead, h264BufLen, WriteEndOpen, errClosed)
         spans == ParseFrom(Window(hUnits, hRead, o.n), 0)
     IN /\ o.kind # "block"
        /\ hRead' = hRead + o.n
        /\ \/ /\ o.kind = "ok"
              /\ spans = <<>>
              \* return nil, nil
              /\ hResult' = [kind |-> "nil", met |-> o.kind, at |-> hRead, op |-> op,
                             hasStderr |-> FALSE, stderr |-> <<>>,
                             appended |-> errAppended]
              /\ hReturned' = hReturned
           \/ /\ o.kind = "ok"
              /\ spans # <<>>
              /\ hResult' = [kind |-> "nal", met |-> o.kind, at |-> hRead, op |-> op,
                             hasStderr |-> FALSE, stderr |-> <<>>,
                             appended |-> errAppended,
                             nal |-> FirstNal(Window(hUnits, hRead, o.n),
                                              hRead, spans[1])]
              /\ hReturned' = Append(hReturned,
                                     FirstNal(Window(hUnits, hRead, o.n),
                                              hRead, spans[1]))
           \/ /\ o.kind \in {"EOF", "ErrUnexpectedEOF"}
              \* return nil, io.EOF
              /\ hResult' = [kind |-> "eof", met |-> o.kind, at |-> hRead, op |-> op,
                             hasStderr |-> FALSE, stderr |-> <<>>,
                             appended |-> errAppended]
              /\ hReturned' = hReturned
           \/ /\ o.kind = "error"
              \* fmt.Errorf("failed to read H264 data: %w", err)
              /\ hResult' = [kind |-> "error", met |-> o.kind, at |-> hRead, op |-> op,
                             hasStderr |-> FALSE, stderr |-> <<>>,
                             appended |-> errAppended]
              /\ hReturned' = hReturned
  /\ hCalls' = hCalls + 1
  /\ UNCHANGED <<hUnits, hWritten>>

\* H264VideoReader.Read, called by RTPReader.Read and RTPReader.ReadMultiple
\* for the NAL unit they packetize (h264_reader.go:441, 456)
HRead == H264VideoReaderRead("Read")

\* RTPReader.PeekNAL (h264_reader.go:480-484): return r.reader.Read()
PeekNAL == H264VideoReaderRead("PeekNAL")

(***************************************************************************)
(* AudioReader (audio.go:11-75)                                            *)
(***************************************************************************)
\* latency := 20 * time.Millisecond, in milliseconds
latencyMs == 20

\* the default sample rate and channel count, audio.go:22-27
defaultSampleRate == 48000

defaultChannels == 2

\* int(float64(sampleRate) * latency.Seconds()), audio.go:46: the product
\* is cut to the integer below it.  For every rate from 1 to 400000 the
\* float64 product cut this way is the integer computed here.
SamplesPerChannel(sampleRate) == (sampleRate * latencyMs) \div 1000

\* the AudioReader newAudioReaderInternal builds, the start succeeded
newAudioReaderInternal(sampleRate, channels) ==
  LET sr == IF sampleRate <= 0 THEN defaultSampleRate ELSE sampleRate
      ch == IF channels <= 0 THEN defaultChannels ELSE channels
      samplesPerChannel == SamplesPerChannel(sr)
      chunkBytes == samplesPerChannel * ch * 2
  IN [sampleRate |-> sr, channels |-> ch,
      samplesPerChannel |-> samplesPerChannel, bufLen |-> chunkBytes]

\* the sample rates and channel counts asked for
ArRates == {0 - 1, 0, 8000, 11025, 11127, 44100, 48000}

ArChannels == {0 - 1, 0, 1, 2}

\* the value of byte p of the process's audio output
ArByte(p) == (p * 7) % 256

AReaderInit ==
  /\ \E sr \in ArRates, ch \in ArChannels :
       LET r == newAudioReaderInternal(sr, ch)
       IN /\ arArgs = <<sr, ch>>
          /\ arRate = r.sampleRate
          /\ arCh = r.channels
          /\ arSpc = r.samplesPerChannel
          /\ arBufLen = r.bufLen
  /\ arLeft = MaxAudioWrites
  /\ arWritten = 0
  /\ arRead = 0
  /\ arResult = [kind |-> "none"]
  /\ arCalls = 0

AReaderParked ==
  /\ arArgs = <<0, 0>>
  /\ arRate = 0
  /\ arCh = 0
  /\ arSpc = 0
  /\ arBufLen = 0
  /\ arLeft = 0
  /\ arWritten = 0
  /\ arRead = 0
  /\ arResult = [kind |-> "none"]
  /\ arCalls = 0

\* the process writes a whole chunk of audio, or a part of one
ARProcWrite ==
  /\ procAlive
  /\ arLeft > 0
  /\ \E w \in {arBufLen, arBufLen \div 2 + 1} : arWritten' = arWritten + w
  /\ arLeft' = arLeft - 1
  /\ UNCHANGED <<arArgs, arRate, arCh, arSpc, arBufLen, arRead, arResult,
                 arCalls>>

\* AudioReader.Read (audio.go:61-75)
ARRead ==
  /\ arCalls < MaxAudioReads
  /\ stopPc \in {"idle", "returned"}
  /\ LET o == ReadFull(arWritten - arRead, arBufLen, WriteEndOpen, errClosed)
         buf == [i \in 1..arBufLen |-> ArByte(arRead + i)]
     IN /\ o.kind # "block"
        /\ arRead' = arRead + o.n
        /\ \/ /\ o.kind = "ok"
              \* chunk, or the parser's error as it is
              /\ arResult' = parseS16LEChunk(buf, arCh, arRate)
           \/ /\ o.kind \in {"EOF", "ErrUnexpectedEOF"}
              /\ arResult' = [kind |-> "eof"]
           \/ /\ o.kind = "error"
              /\ arResult' = [kind |-> "error", stderr |-> stderrBuf]
  /\ arCalls' = arCalls + 1
  /\ UNCHANGED <<arArgs, arRate, arCh, arSpc, arBufLen, arLeft, arWritten>>

(***************************************************************************)
(* MediaStreamTrack and MediaStream (stream_track.go).  A track is an      *)
(* object; a stream's tracks map holds references to track objects under   *)
(* their ids.  An id is the reading of the clock when the object was       *)
(* made (generateTrackID, generateStreamID): the reading of the id made    *)
(* before, or a later one.  A map holds at most one object per id, so it   *)
(* is held as the set of the objects it refers to.  The reader of a track  *)
(* is seen through its capture process: "running", "exited" (the process   *)
(* ended by itself) or "stopped" (the reader was closed); stops counts the *)
(* calls of ffmpegProcess.Stop on it.  Calls on tracks and streams are     *)
(* made one at a time.                                                     *)
(***************************************************************************)
\* the track objects GetUserMedia can create: one video, one audio
TrackObjs == {"video", "audio"}

Streams == 1..MaxStreams

\* newVideoTrack / newAudioTrack (stream_track.go:42-71), the start
\* succeeded; enabled is the zero value of atomic.Bool
newTrack(kind, id) ==
  [kind |-> kind,
   id |-> id,
   enabled |-> FALSE,
   readyState |-> "live",
   videoReader |-> kind = "video",
   audioReader |-> kind = "audio",
   proc |-> "running",
   stops |-> 0]

\* a track object not created
NoTrack ==
  [kind |-> "none", id |-> 0, enabled |-> FALSE, readyState |-> "none",
   videoReader |-> FALSE, audioReader |-> FALSE, proc |-> "none",
   stops |-> 0]

\* a stream object not created
NoStream ==
  [made |-> FALSE, id |-> 0, tracks |-> {}, active |-> FALSE, origin |-> 0]

\* the greatest of a non-empty set of numbers
SetMax(S) == CHOOSE x \in S : \A y \in S : y <= x

\* the clock reading of the id made last, 0 before any
LastId(tr, st) ==
  SetMax({tr[t].id : t \in TrackObjs} \cup {st[s].id : s \in Streams})

\* time.Now().UnixNano() in generateTrackID and generateStreamID
\* (stream_track.go:334-341): the clock has moved on since the last id was
\* made, or it has not
ClockIds(tr, st) ==
  IF LastId(tr, st) = 0 THEN {1} ELSE {LastId(tr, st), LastId(tr, st) + 1}

\* s.tracks[track.id] = track on the map held as the set tracks
MapPut(tr, tracks, t) == {u \in tracks : tr[u].id # tr[t].id} \cup {t}

\* delete(s.tracks, track.id)
MapDelete(tr, tracks, t) == {u \in tracks : tr[u].id # tr[t].id}

\* NewMediaStream (stream_track.go:198-203)
NewMediaStream(id) ==
  [made |-> TRUE, id |-> id, tracks |-> {}, active |-> FALSE, origin |-> 0]

RECURSIVE PutAll(_, _, _)
\* for _, track := range tracks { s.tracks[track.id] = track }
PutAll(tr, tracks, list) ==
  IF list = <<>> THEN tracks
  ELSE PutAll(tr, MapPut(tr, tracks, Head(list)), Tail(list))

\* newMediaStreamWithTracks (stream_track.go:206-215)
newMediaStreamWithTracks(tr, id, list) ==
  [NewMediaStream(id) EXCEPT !.tracks = PutAll(tr, {}, list),
                             !.active = Len(list) > 0]

\* no Read is running beside the other calls
NoRead == [pc |-> "idle", op |-> "none", on |-> "none", result |-> "none"]

\* nothing was created yet
TrackInit ==
  /\ trk = [t \in TrackObjs |-> NoTrack]
  /\ strm = [s \in Streams |-> NoStream]
  /\ trkLast = [op |-> "none", on |-> 0, tracks |-> {}, result |-> "nil",
                tick |-> 0]
  /\ trkRead = NoRead

TrackParked ==
  /\ trk = [t \in TrackObjs |-> NoTrack]
  /\ strm = [s \in Streams |-> NoStream]
  /\ trkLast = [op |-> "none", on |-> 0, tracks |-> {}, result |-> "nil",
                tick |-> 1]
  /\ trkRead = NoRead

\* the record of a call: the operation, the track or stream it was called
\* on, the tracks it was applied to and what it returned; tick tells a call
\* from the one before it
Call(op, on, tracks, result) ==
  [op |-> op, on |-> on, tracks |-> tracks, result |-> result,
   tick |-> 1 - trkLast.tick]

\* the tracks that exist, once GetUserMedia has returned them in a stream
Made == IF strm[1].made THEN {t \in TrackObjs : trk[t].kind # "none"} ELSE {}

StopKeepsReader(t) ==
  IF t.readyState = "ended" THEN t
  ELSE [t EXCEPT !.readyState = "ended"]

StopAlways(t) ==
  [t EXCEPT !.proc = "stopped", !.stops = @ + 1, !.readyState = "ended"]

\* MediaStreamTrack.Stop (stream_track.go:113-131) applied to track value t
Stop(t) ==
  IF t.readyState = "ended" THEN t
  ELSE [t EXCEPT !.videoReader = FALSE,
                 !.audioReader = FALSE,
                 \* videoReader.Close() / audioReader.Close(): proc.Stop()
                 !.proc = IF t.videoReader \/ t.audioReader
                            THEN "stopped" ELSE @,
                 !.stops = IF t.videoReader \/ t.audioReader
                             THEN @ + 1 ELSE @,
                 !.readyState = "ended"]

StopNone(tr, created) == tr

\* for _, t := range tracks { t.Stop() } (getusermedia.go:42-44, 55-57)
StopCreated(tr, created) ==
  [t \in TrackObjs |-> IF t \in created THEN Stop(tr[t]) ELSE tr[t]]

\* GetUserMedia (getusermedia.go:34-68): asked holds the kinds the
\* constraints name, failing the kinds whose track cannot be created
GetUserMedia ==
  /\ trkLast.op = "none"
  /\ trkLast.tick = 0
  /\ \E asked \in SUBSET TrackObjs, failing \in SUBSET TrackObjs :
       LET videoMade == "video" \in asked /\ "video" \notin failing
           videoErr == "video" \in asked /\ "video" \in failing
           audioTried == "audio" \in asked /\ ~videoErr
           audioErr == audioTried /\ "audio" \in failing
           audioMade == audioTried /\ ~audioErr
       IN \E vid \in ClockIds(trk, strm) :
            LET tr1 == IF videoMade
                         THEN [trk EXCEPT !["video"] = newTrack("video", vid)]
                         ELSE trk
            IN \E aid \in ClockIds(tr1, strm) :
                 LET tr2 == IF audioMade
                              THEN [tr1 EXCEPT !["audio"] = newTrack("audio", aid)]
                              ELSE tr1
                     list == (IF videoMade THEN <<"video">> ELSE <<>>)
                               \o (IF audioMade THEN <<"audio">> ELSE <<>>)
                 IN IF videoErr
                      \* no track was created yet: nothing to stop
                      THEN /\ trk' = StopCreated(tr2, {})
                           /\ strm' = strm
                           /\ trkLast' = Call("GetUserMedia", 0, {}, "errVideo")
                    ELSE IF audioErr
                      \* for _, t := range tracks { t.Stop() }
                      THEN /\ trk' = StopCreated(tr2, IF videoMade THEN {"video"}
                                                                     ELSE {})
                           /\ strm' = strm
                           /\ trkLast' = Call("GetUserMedia", 0, {}, "errAudio")
                    ELSE IF list = <<>>
                      THEN /\ trk' = tr2
                           /\ strm' = strm
                           /\ trkLast' = Call("GetUserMedia", 0, {},
                                              "errNoConstraints")
                    ELSE \E sid \in ClockIds(tr2, strm) :
                           /\ trk' = tr2
                           /\ strm' = [strm EXCEPT ![1] =
                                         newMediaStreamWithTracks(tr2, sid, list)]
                           /\ trkLast' = Call("GetUserMedia", 1,
                                              strm'[1].tracks, "nil")

\* t.SetEnabled(enabled) (stream_track.go:100-102)
SetEnabled ==
  \E t \in Made, enabled \in BOOLEAN :
    /\ trk' = [trk EXCEPT ![t].enabled = enabled]
    /\ trkLast' = Call("SetEnabled", t, {t}, "nil")
    /\ UNCHANGED strm

\* t.Stop()
TrackStop ==
  \E t \in Made :
    /\ trk' = [trk EXCEPT ![t] = Stop(trk[t])]
    /\ trkLast' = Call("Stop", t, {t}, "nil")
    /\ UNCHANGED strm

\* t.Close() (stream_track.go:134-137)
TrackClose ==
  \E t \in Made :
    /\ trk' = [trk EXCEPT ![t] = Stop(trk[t])]
    /\ trkLast' = Call("Close", t, {t}, "nil")
    /\ UNCHANGED strm

\* what the reader of a track returns: data while the capture runs
ReaderRead(t) == IF t.proc = "running" THEN "data" ELSE "EOF"

\* MediaStreamTrack.Read (stream_track.go:142-150) applied to track value t
Read(t) ==
  IF t.kind # "video" THEN "errNotVideo"
  ELSE IF ~t.videoReader THEN "EOF"
  ELSE ReaderRead(t)

\* MediaStreamTrack.ReadAudio (stream_track.go:155-163)
ReadAudio(t) ==
  IF t.kind # "audio" THEN "errNotAudio"
  ELSE IF ~t.audioReader THEN "EOF"
  ELSE ReaderRead(t)

\* t.Read()
TrackRead ==
  \E t \in Made :
    /\ trkLast' = Call("Read", t, {t}, Read(trk[t]))
    /\ UNCHANGED <<trk, strm>>

\* t.ReadAudio()
TrackReadAudio ==
  \E t \in Made :
    /\ trkLast' = Call("ReadAudio", t, {t}, ReadAudio(trk[t]))
    /\ UNCHANGED <<trk, strm>>

\* the capture process of a track ends by itself
TrackProcExit ==
  \E t \in Made :
    /\ trk[t].proc = "running"
    /\ trk' = [trk EXCEPT ![t].proc = "exited"]
    /\ UNCHANGED <<strm, trkLast>>

\* s.AddTrack(t) (stream_track.go:283-289)
StreamAddTrack ==
  \E s \in Streams, t \in Made :
    /\ strm[s].made
    /\ strm' = [strm EXCEPT ![s].tracks = MapPut(trk, @, t),
                            ![s].active = TRUE]
    /\ trkLast' = Call("AddTrack", s, {t}, "nil")
    /\ UNCHANGED trk

\* s.RemoveTrack(t) (stream_track.go:293-301)
StreamRemoveTrack ==
  \E s \in Streams, t \in Made :
    /\ strm[s].made
    /\ strm' = [strm EXCEPT ![s].tracks = MapDelete(trk, @, t),
                            ![s].active = IF MapDelete(trk, strm[s].tracks, t) = {}
                                            THEN FALSE ELSE @]
    /\ trkLast' = Call("RemoveTrack", s, {t}, "nil")
    /\ UNCHANGED trk

\* s.Clone() (stream_track.go:305-317): the new stream's map refers to the
\* track objects of s; origin records the stream it was cloned from
StreamClone ==
  \E s, c \in Streams :
    /\ strm[s].made
    /\ ~strm[c].made
    /\ \A d \in Streams : d < c => strm[d].made
    /\ \E id \in ClockIds(trk, strm) :
         strm' = [strm EXCEPT ![c] = [NewMediaStream(id) EXCEPT
                                        !.tracks = strm[s].tracks,
                                        !.active = strm[s].active,
                                        !.origin = s]]
    /\ trkLast' = Call("Clone", s, strm[s].tracks, c)
    /\ UNCHANGED trk

StreamCloseKeepsTracks(s) ==
  /\ trk' = [t \in TrackObjs |->
               IF t \in strm[s].tracks THEN Stop(trk[t]) ELSE trk[t]]
  /\ strm' = [strm EXCEPT ![s].active = FALSE]

\* MediaStream.Close (stream_track.go:321-331) on stream s
StreamCloseOf(s) ==
  /\ trk' = [t \in TrackObjs |->
               IF t \in strm[s].tracks THEN Stop(trk[t]) ELSE trk[t]]
  /\ strm' = [strm EXCEPT ![s].tracks = {}, ![s].active = FALSE]

\* s.Close()
StreamClose ==
  \E s \in Streams :
    /\ strm[s].made
    /\ StreamCloseOf(s)
    /\ trkLast' = Call("StreamClose", s, strm[s].tracks, "nil")

(***************************************************************************)
(* MediaStreamTrack.Read and ReadAudio beside Stop (stream_track.go:       *)
(* 142-163).  They take no lock: the reader field is loaded once for the   *)
(* nil test and once more for the call, and Stop may store nil in between. *)
(***************************************************************************)
\* the reader field Read (op "Read") or ReadAudio loads
ReaderField(t, op) == IF op = "Read" THEN t.videoReader ELSE t.audioReader

\* the kind of track op reads
KindOf(op) == IF op = "Read" THEN "video" ELSE "audio"

\* lines 143-148 / 156-161: the kind test and the nil test
RaceReadCheck ==
  /\ trkRead.pc \in {"idle", "done"}
  /\ \E t \in Made, op \in {"Read", "ReadAudio"} :
       trkRead' =
         IF trk[t].kind # KindOf(op)
           THEN [pc |-> "done", op |-> op, on |-> t, result |-> "errKind"]
         ELSE IF ~ReaderField(trk[t], op)
           THEN [pc |-> "done", op |-> op, on |-> t, result |-> "EOF"]
         ELSE [pc |-> "checked", op |-> op, on |-> t, result |-> "none"]
  /\ UNCHANGED <<trk, strm, trkLast>>

\* lines 149 / 162: return t.videoReader.Read(), the field loaded again; a
\* nil field makes it a call on a nil reader
RaceReadCall ==
  /\ trkRead.pc = "checked"
  /\ trkRead' =
       [trkRead EXCEPT
          !.pc = "done",
          !.result = IF ReaderField(trk[trkRead.on], trkRead.op)
                       THEN ReaderRead(trk[trkRead.on])
                       ELSE "nilReaderCall"]
  /\ UNCHANGED <<trk, strm, trkLast>>

(***************************************************************************)
(* The global configuration (SetConfig, GetConfig) and the discovery of    *)
(* the devices, done once and kept (EnumerateDevices and its filters).     *)
(* The calls run on goroutines that interleave between their steps.        *)
(***************************************************************************)
MaxCfgCalls == 4

Goroutines == {"g1", "g2"}

CfgPaths == {"", "ffmpeg", "/usr/local/bin/ffmpeg"}

Configs == [FFmpegPath : CfgPaths, Verbose : BOOLEAN]

\* the value of the package variable before any call
DefaultConfig == [FFmpegPath |-> "ffmpeg", Verbose |-> FALSE]

\* SetConfig stores its argument as it is
SetConfigValueRaw(cfg) == cfg

\* the value SetConfig stores for its argument
SetConfigValue(cfg) ==
  IF cfg.FFmpegPath = "" THEN [cfg EXCEPT !.FFmpegPath = "ffmpeg"] ELSE cfg

EnumOps == {"EnumerateDevices", "VideoInputDevices", "AudioInputDevices",
            "AudioOutputDevices"}

\* the lists a discovery can produce: what the program at the path reports
\* is the environment's; the error is nil on every path of the function
discoverDevices(ffmpegPath) ==
  { [devices |-> d, err |-> "nil"] :
      d \in IF ffmpegPath = "ffmpeg"
              THEN {<<>>, <<"videoinput", "audioinput">>}
              ELSE {<<>>, <<"audioinput">>} }

RECURSIVE FilterKind(_, _)
FilterKind(all, kind) ==
  IF all = <<>> THEN <<>>
  ELSE IF Head(all) = kind THEN <<Head(all)>> \o FilterKind(Tail(all), kind)
  ELSE FilterKind(Tail(all), kind)

\* what a call returns from the list and error EnumerateDevices gave it
EnumResult(op, all, err) ==
  IF op = "EnumerateDevices" THEN [devices |-> all, err |-> err]
  ELSE IF err # "nil" THEN [devices |-> <<>>, err |-> err]
  ELSE [devices |-> FilterKind(all,
                       CASE op = "VideoInputDevices" -> "videoinput"
                         [] op = "AudioInputDevices" -> "audioinput"
                         [] OTHER -> "audiooutput"),
        err |-> "nil"]

\* Once.Do runs its function on every call
OnceAlwaysRuns(o) == TRUE

\* Once.Do runs its function only if no call has finished running it
OnceMustRun(o) == ~o.done

\* no SetConfig has been called
NeverSet == [set |-> FALSE, cfg |-> DefaultConfig]

IdleGor == [pc |-> "idle", op |-> "none", cfg |-> DefaultConfig,
            ret |-> "none", last |-> NeverSet]

ConfigInit ==
  /\ globalConfig = DefaultConfig
  /\ configMu = [w |-> "none", r |-> {}]
  /\ initOnce = [done |-> FALSE, m |-> "none"]
  /\ cachedDevices = <<>>
  /\ cachedDevErr = "nil"
  /\ gor = [g \in Goroutines |-> IdleGor]
  /\ cfgHist = [discovered |-> 0, path |-> "none", seen |-> {}, lastSet |-> NeverSet]
  /\ cfgCalls = 0

ConfigParked ==
  /\ globalConfig = DefaultConfig
  /\ configMu = [w |-> "none", r |-> {}]
  /\ initOnce = [done |-> FALSE, m |-> "none"]
  /\ cachedDevices = <<>>
  /\ cachedDevErr = "nil"
  /\ gor = [g \in Goroutines |-> [IdleGor EXCEPT !.pc = "parked"]]
  /\ cfgHist = [discovered |-> 0, path |-> "none", seen |-> {}, lastSet |-> NeverSet]
  /\ cfgCalls = 0

\* SetConfig, entry: takes the write lock and fills the default path in its
\* own copy of the argument
SetConfigLock ==
  \E g \in Goroutines, cfg \in Configs :
    /\ gor[g].pc = "idle"
    /\ cfgCalls < MaxCfgCalls
    /\ configMu.w = "none" /\ configMu.r = {}
    /\ configMu' = [configMu EXCEPT !.w = g]
    /\ gor' = [gor EXCEPT ![g] = [pc |-> "setPath", op |-> "SetConfig",
                                  cfg |-> SetConfigValue(cfg),
                                  ret |-> "none", last |-> NeverSet]]
    /\ cfgHist' = [cfgHist EXCEPT !.lastSet = [set |-> TRUE, cfg |-> cfg]]
    /\ cfgCalls' = cfgCalls + 1
    /\ UNCHANGED <<globalConfig, initOnce, cachedDevices, cachedDevErr>>

\* SetConfig, the assignment of the struct: the first field
SetConfigStorePath ==
  \E g \in Goroutines :
    /\ gor[g].pc = "setPath"
    /\ globalConfig' = [globalConfig EXCEPT !.FFmpegPath = gor[g].cfg.FFmpegPath]
    /\ gor' = [gor EXCEPT ![g].pc = "setVerbose"]
    /\ UNCHANGED <<configMu, initOnce, cachedDevices, cachedDevErr, cfgHist, cfgCalls>>

\* SetConfig, the second field, then the deferred Unlock and the return
SetConfigStoreVerbose ==
  \E g \in Goroutines :
    /\ gor[g].pc = "setVerbose"
    /\ globalConfig' = [globalConfig EXCEPT !.Verbose = gor[g].cfg.Verbose]
    /\ configMu' = [configMu EXCEPT !.w = "none"]
    /\ gor' = [gor EXCEPT ![g].pc = "idle"]
    /\ UNCHANGED <<initOnce, cachedDevices, cachedDevErr, cfgHist, cfgCalls>>

\* GetConfig, entry: takes the read lock; called by the program or by the
\* discovery function
GetConfigRLock ==
  \E g \in Goroutines :
    /\ configMu.w = "none"
    /\ \/ /\ gor[g].pc = "idle"
          /\ cfgCalls < MaxCfgCalls
          /\ cfgCalls' = cfgCalls + 1
          /\ gor' = [gor EXCEPT ![g] = [pc |-> "getRead", op |-> "GetConfig",
                                        cfg |-> DefaultConfig,
                                        ret |-> "none", last |-> NeverSet]]
       \/ /\ gor[g].pc = "onceGetConfig"
          /\ cfgCalls' = cfgCalls
          /\ gor' = [gor EXCEPT ![g].pc = "getRead"]
    /\ configMu' = [configMu EXCEPT !.r = @ \cup {g}]
    /\ UNCHANGED <<globalConfig, initOnce, cachedDevices, cachedDevErr, cfgHist>>

\* GetConfig, the copy of the struct, the deferred RUnlock and the return
GetConfigReturn ==
  \E g \in Goroutines :
    /\ gor[g].pc = "getRead"
    /\ configMu' = [configMu EXCEPT !.r = @ \ {g}]
    /\ gor' = [gor EXCEPT ![g] =
                 IF gor[g].op = "GetConfig"
                   THEN [@ EXCEPT !.pc = "idle", !.ret = globalConfig,
                                  !.last = cfgHist.lastSet]
                   ELSE [@ EXCEPT !.pc = "onceDiscover", !.cfg = globalConfig]]
    /\ UNCHANGED <<globalConfig, initOnce, cachedDevices, cachedDevErr, cfgHist, cfgCalls>>

\* EnumerateDevices or one of its filters, entry: Once.Do, which returns at
\* once when the discovery is done
EnumCall ==
  \E g \in Goroutines, op \in EnumOps :
    /\ gor[g].pc = "idle"
    /\ cfgCalls < MaxCfgCalls
    /\ cfgCalls' = cfgCalls + 1
    /\ gor' = [gor EXCEPT ![g] = [pc |-> IF OnceMustRun(initOnce) THEN "onceLock"
                                         ELSE "enumReturn",
                                  op |-> op, cfg |-> DefaultConfig,
                                  ret |-> "none", last |-> NeverSet]]
    /\ UNCHANGED <<globalConfig, configMu, initOnce, cachedDevices, cachedDevErr, cfgHist>>

\* Once.Do, the slow path: takes the Once's mutex and looks at done again
OnceLock ==
  \E g \in Goroutines :
    /\ gor[g].pc = "onceLock"
    /\ initOnce.m = "none"
    /\ IF OnceMustRun(initOnce)
         THEN /\ initOnce' = [initOnce EXCEPT !.m = g]
              /\ gor' = [gor EXCEPT ![g].pc = "onceGetConfig"]
         ELSE /\ initOnce' = initOnce
              /\ gor' = [gor EXCEPT ![g].pc = "enumReturn"]
    /\ UNCHANGED <<globalConfig, configMu, cachedDevices, cachedDevErr, cfgHist, cfgCalls>>

\* the function given to Once.Do, after GetConfig: discoverDevices, the
\* two package variables, then done and the Once's mutex
OnceDiscover ==
  \E g \in Goroutines :
    /\ gor[g].pc = "onceDiscover"
    /\ \E out \in discoverDevices(gor[g].cfg.FFmpegPath) :
         /\ cachedDevices' = out.devices
         /\ cachedDevErr' = out.err
    /\ initOnce' = [done |-> TRUE, m |-> "none"]
    /\ cfgHist' = [cfgHist EXCEPT !.discovered = @ + 1,
                                  !.path = gor[g].cfg.FFmpegPath]
    /\ gor' = [gor EXCEPT ![g].pc = "enumReturn"]
    /\ UNCHANGED <<globalConfig, configMu, cfgCalls>>

\* EnumerateDevices returns the two package variables; a filter keeps the
\* devices of its kind
EnumReturn ==
  \E g \in Goroutines :
    /\ gor[g].pc = "enumReturn"
    /\ gor' = [gor EXCEPT ![g] =
                 [@ EXCEPT !.pc = "idle",
                           !.ret = EnumResult(gor[g].op, cachedDevices, cachedDevErr)]]
    /\ cfgHist' = [cfgHist EXCEPT !.seen = @ \cup
                     {[devices |-> cachedDevices, err |-> cachedDevErr]}]
    /\ UNCHANGED <<globalConfig, configMu, initOnce, cachedDevices, cachedDevErr, cfgCalls>>

(***************************************************************************)
(* Specifications                                                          *)
(***************************************************************************)
InitProc == ProcInit(MaxStderrWrites) /\ RtpParked /\ FrameParked /\ VideoParked /\ AudioParked /\ ParseParked /\ H264Parked /\ AReaderParked /\ TrackParked /\ ConfigParked

NextProc ==
  \/ ProcWriteStderr /\ UNCHANGED <<rtpVars, frameVars, vidVars, audVars, prsVars, h264Vars, arVars, cfgVars, trkVars, descAlive>>
  \/ ProcExit /\ UNCHANGED <<rtpVars, frameVars, vidVars, audVars, prsVars, h264Vars, arVars, cfgVars, trkVars, descAlive>>
  \/ ProcFork /\ UNCHANGED <<rtpVars, frameVars, vidVars, audVars, prsVars, h264Vars, arVars, cfgVars, trkVars>>
  \/ DescExit /\ UNCHANGED <<rtpVars, frameVars, vidVars, audVars, prsVars, h264Vars, arVars, cfgVars, trkVars>>
  \/ ProcKilled /\ UNCHANGED <<rtpVars, frameVars, vidVars, audVars, prsVars, h264Vars, arVars, cfgVars, trkVars, descAlive>>
  \/ DrainRead /\ UNCHANGED <<rtpVars, frameVars, vidVars, audVars, prsVars, h264Vars, arVars, cfgVars, trkVars, descAlive>>
  \/ DrainAppend /\ UNCHANGED <<rtpVars, frameVars, vidVars, audVars, prsVars, h264Vars, arVars, cfgVars, trkVars, descAlive>>
  \/ LastStderr /\ UNCHANGED <<rtpVars, frameVars, vidVars, audVars, prsVars, h264Vars, arVars, cfgVars, trkVars, descAlive>>
  \/ StopCancel /\ UNCHANGED <<rtpVars, frameVars, vidVars, audVars, prsVars, h264Vars, arVars, cfgVars, trkVars, descAlive>>
  \/ StopJoin /\ UNCHANGED <<rtpVars, frameVars, vidVars, audVars, prsVars, h264Vars, arVars, cfgVars, trkVars, descAlive>>
  \/ StopWait /\ UNCHANGED <<rtpVars, frameVars, vidVars, audVars, prsVars, h264Vars, arVars, cfgVars, trkVars, descAlive>>

SpecProc == InitProc /\ [][NextProc]_vars

\* the goroutines of the program and the kill of the cancelled command keep
\* running; the external processes owe nothing
SpecProcFair ==
  /\ InitProc /\ [][NextProc]_vars
  /\ WF_procVars(ProcKilled)
  /\ WF_procVars(DrainRead)
  /\ WF_procVars(DrainAppend)
  /\ WF_procVars(StopJoin)
  /\ WF_procVars(StopWait)

InitRTP == ProcInit(0) /\ RtpInit /\ FrameParked /\ VideoParked /\ AudioParked /\ ParseParked /\ H264Parked /\ AReaderParked /\ TrackParked /\ ConfigParked

NextRTP ==
  \/ RTPReadEOF /\ UNCHANGED <<procVars, frameVars, vidVars, audVars, prsVars, h264Vars, arVars, cfgVars, trkVars, descAlive>>
  \/ RTPRead /\ UNCHANGED <<procVars, frameVars, vidVars, audVars, prsVars, h264Vars, arVars, cfgVars, trkVars, descAlive>>
  \/ RTPReadMultiple /\ UNCHANGED <<procVars, frameVars, vidVars, audVars, prsVars, h264Vars, arVars, cfgVars, trkVars, descAlive>>

SpecRTP == InitRTP /\ [][NextRTP]_vars

InitFrame == ProcInit(0) /\ RtpParked /\ FrameInit /\ VideoParked /\ AudioParked /\ ParseParked /\ H264Parked /\ AReaderParked /\ TrackParked /\ ConfigParked

NextFrame == FrameParse /\ UNCHANGED <<procVars, rtpVars, vidVars, audVars, prsVars, h264Vars, arVars, cfgVars, trkVars, descAlive>>

SpecFrame == InitFrame /\ [][NextFrame]_vars

InitAudio ==
  ProcInit(0) /\ RtpParked /\ FrameParked /\ VideoParked /\ AudioInit /\ ParseParked /\ H264Parked /\ AReaderParked /\ TrackParked /\ ConfigParked

NextAudio ==
  AudioParse /\ UNCHANGED <<procVars, rtpVars, frameVars, vidVars, prsVars, h264Vars, arVars, cfgVars, trkVars, descAlive>>

SpecAudio == InitAudio /\ [][NextAudio]_vars

InitParse ==
  /\ ProcInit(0) /\ RtpParked /\ FrameParked /\ VideoParked /\ AudioParked
  /\ ParseInit /\ H264Parked /\ AReaderParked /\ TrackParked /\ ConfigParked

NextParse ==
  ParseCall /\ UNCHANGED <<procVars, rtpVars, frameVars, vidVars, audVars, h264Vars, arVars, cfgVars, trkVars, descAlive>>

SpecParse == InitParse /\ [][NextParse]_vars

InitH264 ==
  /\ ProcInit(1) /\ RtpParked /\ FrameParked /\ VideoParked /\ AudioParked
  /\ ParseParked /\ H264Init /\ AReaderParked /\ TrackParked /\ ConfigParked

NextH264 ==
  \/ HProcWrite /\ UNCHANGED <<procVars, rtpVars, frameVars, vidVars, audVars, prsVars, arVars, cfgVars, trkVars, descAlive>>
  \/ ProcWriteStderrOf(VideoStderrSizes) /\ UNCHANGED <<rtpVars, frameVars, vidVars, audVars, prsVars, h264Vars, arVars, cfgVars, trkVars, descAlive>>
  \/ ProcExit /\ UNCHANGED <<rtpVars, frameVars, vidVars, audVars, prsVars, h264Vars, arVars, cfgVars, trkVars, descAlive>>
  \/ ProcKilled /\ UNCHANGED <<rtpVars, frameVars, vidVars, audVars, prsVars, h264Vars, arVars, cfgVars, trkVars, descAlive>>
  \/ DrainRead /\ UNCHANGED <<rtpVars, frameVars, vidVars, audVars, prsVars, h264Vars, arVars, cfgVars, trkVars, descAlive>>
  \/ DrainAppend /\ UNCHANGED <<rtpVars, frameVars, vidVars, audVars, prsVars, h264Vars, arVars, cfgVars, trkVars, descAlive>>
  \/ StopCancel /\ UNCHANGED <<rtpVars, frameVars, vidVars, audVars, prsVars, h264Vars, arVars, cfgVars, trkVars, descAlive>>
  \/ StopJoin /\ UNCHANGED <<rtpVars, frameVars, vidVars, audVars, prsVars, h264Vars, arVars, cfgVars, trkVars, descAlive>>
  \/ StopWait /\ UNCHANGED <<rtpVars, frameVars, vidVars, audVars, prsVars, h264Vars, arVars, cfgVars, trkVars, descAlive>>
  \/ HRead /\ UNCHANGED <<procVars, rtpVars, frameVars, vidVars, audVars, prsVars, arVars, cfgVars, trkVars, descAlive>>
  \/ PeekNAL /\ UNCHANGED <<procVars, rtpVars, frameVars, vidVars, audVars, prsVars, arVars, cfgVars, trkVars, descAlive>>

SpecH264 == InitH264 /\ [][NextH264]_vars

InitVideo == ProcInit(1) /\ RtpParked /\ FrameParked /\ VideoInit /\ AudioParked /\ ParseParked /\ H264Parked /\ AReaderParked /\ TrackParked /\ ConfigParked

NextVideo ==
  \/ ProcWriteStdout /\ UNCHANGED <<procVars, rtpVars, frameVars, audVars, prsVars, h264Vars, arVars, cfgVars, trkVars, descAlive>>
  \/ ProcWriteStderrOf(VideoStderrSizes) /\ UNCHANGED <<rtpVars, frameVars, vidVars, audVars, prsVars, h264Vars, arVars, cfgVars, trkVars, descAlive>>
  \/ ProcExit /\ UNCHANGED <<rtpVars, frameVars, vidVars, audVars, prsVars, h264Vars, arVars, cfgVars, trkVars, descAlive>>
  \/ ProcKilled /\ UNCHANGED <<rtpVars, frameVars, vidVars, audVars, prsVars, h264Vars, arVars, cfgVars, trkVars, descAlive>>
  \/ DrainRead /\ UNCHANGED <<rtpVars, frameVars, vidVars, audVars, prsVars, h264Vars, arVars, cfgVars, trkVars, descAlive>>
  \/ DrainAppend /\ UNCHANGED <<rtpVars, frameVars, vidVars, audVars, prsVars, h264Vars, arVars, cfgVars, trkVars, descAlive>>
  \/ VRIdle /\ StopCancel /\ UNCHANGED <<rtpVars, frameVars, vidVars, audVars, prsVars, h264Vars, arVars, cfgVars, trkVars, descAlive>>
  \/ StopJoin /\ UNCHANGED <<rtpVars, frameVars, vidVars, audVars, prsVars, h264Vars, arVars, cfgVars, trkVars, descAlive>>
  \/ StopWait /\ UNCHANGED <<rtpVars, frameVars, vidVars, audVars, prsVars, h264Vars, arVars, cfgVars, trkVars, descAlive>>
  \/ VRCall /\ UNCHANGED <<procVars, rtpVars, frameVars, audVars, prsVars, h264Vars, arVars, cfgVars, trkVars, descAlive>>
  \/ VRLoopCheck /\ UNCHANGED <<procVars, rtpVars, frameVars, audVars, prsVars, h264Vars, arVars, cfgVars, trkVars, descAlive>>
  \/ VRFirstReadFull /\ UNCHANGED <<procVars, rtpVars, frameVars, audVars, prsVars, h264Vars, arVars, cfgVars, trkVars, descAlive>>
  \/ VRSleep /\ UNCHANGED <<procVars, rtpVars, frameVars, audVars, prsVars, h264Vars, arVars, cfgVars, trkVars, descAlive>>
  \/ VRNormalReadFull /\ UNCHANGED <<procVars, rtpVars, frameVars, audVars, prsVars, h264Vars, arVars, cfgVars, trkVars, descAlive>>
  \/ VRBlocked /\ UNCHANGED <<procVars, rtpVars, frameVars, audVars, prsVars, h264Vars, arVars, cfgVars, trkVars, descAlive>>

SpecVideo == InitVideo /\ [][NextVideo]_vars

InitAReader ==
  /\ ProcInit(0) /\ RtpParked /\ FrameParked /\ VideoParked /\ AudioParked
  /\ ParseParked /\ H264Parked /\ AReaderInit /\ TrackParked /\ ConfigParked

NextAReader ==
  \/ ARProcWrite /\ UNCHANGED <<procVars, rtpVars, frameVars, vidVars, audVars, prsVars, h264Vars, cfgVars, trkVars, descAlive>>
  \/ ProcExit /\ UNCHANGED <<rtpVars, frameVars, vidVars, audVars, prsVars, h264Vars, arVars, cfgVars, trkVars, descAlive>>
  \/ ARRead /\ UNCHANGED <<procVars, rtpVars, frameVars, vidVars, audVars, prsVars, h264Vars, cfgVars, trkVars, descAlive>>

SpecAReader == InitAReader /\ [][NextAReader]_vars

InitTrack ==
  /\ ProcInit(0) /\ RtpParked /\ FrameParked /\ VideoParked /\ AudioParked
  /\ ParseParked /\ H264Parked /\ AReaderParked /\ TrackInit /\ ConfigParked

NextTrack ==
  \/ GetUserMedia /\ UNCHANGED <<procVars, rtpVars, frameVars, vidVars, audVars, prsVars, h264Vars, arVars, cfgVars, trkRead, descAlive>>
  \/ SetEnabled /\ UNCHANGED <<procVars, rtpVars, frameVars, vidVars, audVars, prsVars, h264Vars, arVars, cfgVars, trkRead, descAlive>>
  \/ TrackStop /\ UNCHANGED <<procVars, rtpVars, frameVars, vidVars, audVars, prsVars, h264Vars, arVars, cfgVars, trkRead, descAlive>>
  \/ TrackClose /\ UNCHANGED <<procVars, rtpVars, frameVars, vidVars, audVars, prsVars, h264Vars, arVars, cfgVars, trkRead, descAlive>>
  \/ TrackRead /\ UNCHANGED <<procVars, rtpVars, frameVars, vidVars, audVars, prsVars, h264Vars, arVars, cfgVars, trkRead, descAlive>>
  \/ TrackReadAudio /\ UNCHANGED <<procVars, rtpVars, frameVars, vidVars, audVars, prsVars, h264Vars, arVars, cfgVars, trkRead, descAlive>>
  \/ TrackProcExit /\ UNCHANGED <<procVars, rtpVars, frameVars, vidVars, audVars, prsVars, h264Vars, arVars, cfgVars, trkRead, descAlive>>
  \/ StreamAddTrack /\ UNCHANGED <<procVars, rtpVars, frameVars, vidVars, audVars, prsVars, h264Vars, arVars, cfgVars, trkRead, descAlive>>
  \/ StreamRemoveTrack /\ UNCHANGED <<procVars, rtpVars, frameVars, vidVars, audVars, prsVars, h264Vars, arVars, cfgVars, trkRead, descAlive>>
  \/ StreamClone /\ UNCHANGED <<procVars, rtpVars, frameVars, vidVars, audVars, prsVars, h264Vars, arVars, cfgVars, trkRead, descAlive>>
  \/ StreamClose /\ UNCHANGED <<procVars, rtpVars, frameVars, vidVars, audVars, prsVars, h264Vars, arVars, cfgVars, trkRead, descAlive>>

SpecTrack == InitTrack /\ [][NextTrack]_vars

\* the calls on tracks and streams with a Read or ReadAudio that runs on
\* another goroutine: Read takes no lock, so the other calls happen between
\* its steps
NextTrackRace ==
  \/ GetUserMedia /\ UNCHANGED <<procVars, rtpVars, frameVars, vidVars, audVars, prsVars, h264Vars, arVars, cfgVars, trkRead, descAlive>>
  \/ SetEnabled /\ UNCHANGED <<procVars, rtpVars, frameVars, vidVars, audVars, prsVars, h264Vars, arVars, cfgVars, trkRead, descAlive>>
  \/ TrackStop /\ UNCHANGED <<procVars, rtpVars, frameVars, vidVars, audVars, prsVars, h264Vars, arVars, cfgVars, trkRead, descAlive>>
  \/ TrackClose /\ UNCHANGED <<procVars, rtpVars, frameVars, vidVars, audVars, prsVars, h264Vars, arVars, cfgVars, trkRead, descAlive>>
  \/ TrackProcExit /\ UNCHANGED <<procVars, rtpVars, frameVars, vidVars, audVars, prsVars, h264Vars, arVars, cfgVars, trkRead, descAlive>>
  \/ StreamClose /\ UNCHANGED <<procVars, rtpVars, frameVars, vidVars, audVars, prsVars, h264Vars, arVars, cfgVars, trkRead, descAlive>>
  \/ RaceReadCheck /\ UNCHANGED <<procVars, rtpVars, frameVars, vidVars, audVars, prsVars, h264Vars, arVars, cfgVars, descAlive>>
  \/ RaceReadCall /\ UNCHANGED <<procVars, rtpVars, frameVars, vidVars, audVars, prsVars, h264Vars, arVars, cfgVars, descAlive>>

SpecTrackRace == InitTrack /\ [][NextTrackRace]_vars

InitConfig ==
  /\ ProcInit(0) /\ RtpParked /\ FrameParked /\ VideoParked /\ AudioParked
  /\ ParseParked /\ H264Parked /\ AReaderParked /\ TrackParked /\ ConfigInit

\* goroutines that call SetConfig, GetConfig, EnumerateDevices and its filters
NextConfig ==
  \/ SetConfigLock /\ UNCHANGED <<procVars, rtpVars, frameVars, vidVars, audVars, prsVars, h264Vars, arVars, trkVars, descAlive>>
  \/ SetConfigStorePath /\ UNCHANGED <<procVars, rtpVars, frameVars, vidVars, audVars, prsVars, h264Vars, arVars, trkVars, descAlive>>
  \/ SetConfigStoreVerbose /\ UNCHANGED <<procVars, rtpVars, frameVars, vidVars, audVars, prsVars, h264Vars, arVars, trkVars, descAlive>>
  \/ GetConfigRLock /\ UNCHANGED <<procVars, rtpVars, frameVars, vidVars, audVars, prsVars, h264Vars, arVars, trkVars, descAlive>>
  \/ GetConfigReturn /\ UNCHANGED <<procVars, rtpVars, frameVars, vidVars, audVars, prsVars, h264Vars, arVars, trkVars, descAlive>>
  \/ EnumCall /\ UNCHANGED <<procVars, rtpVars, frameVars, vidVars, audVars, prsVars, h264Vars, arVars, trkVars, descAlive>>
  \/ OnceLock /\ UNCHANGED <<procVars, rtpVars, frameVars, vidVars, audVars, prsVars, h264Vars, arVars, trkVars, descAlive>>
  \/ OnceDiscover /\ UNCHANGED <<procVars, rtpVars, frameVars, vidVars, audVars, prsVars, h264Vars, arVars, trkVars, descAlive>>
  \/ EnumReturn /\ UNCHANGED <<procVars, rtpVars, frameVars, vidVars, audVars, prsVars, h264Vars, arVars, trkVars, descAlive>>

SpecConfig == InitConfig /\ [][NextConfig]_vars

\* the last min(n, stderrBufSize) bytes of the first n bytes of the stream
LastBytes(n) == StreamBytes(n - Min(n, stderrBufSize), n)

(***************************************************************************)
(* C1: at every moment the diagnostic buffer holds at most stderrBufSize   *)
(* (4096) bytes and is exactly the last min(n, 4096) of the n bytes the    *)
(* drain task has appended; every LastStderr snapshot is the last          *)
(* min(n, 4096) bytes of the n bytes appended when it was taken.           *)
(***************************************************************************)
C1_DiagnosticBufferBounded ==
  /\ BLen(stderrBuf) <= stderrBufSize
  /\ stderrBuf = LastBytes(errAppended)
  /\ BLen(snapshot) <= stderrBufSize
  /\ snapshot = LastBytes(snapN)

\* a snapshot of a full buffer whose oldest bytes were evicted, taken while
\* the drain task went on appending
C1_Witness ==
  /\ snapCalls > 0
  /\ snapN > stderrBufSize
  /\ BLen(snapshot) = stderrBufSize
  /\ errAppended > snapN

(***************************************************************************)
(* C2: Stop does not call cmd.Wait, and does not return, before the drain  *)
(* task has seen end-of-stream and closed done; so once Stop has returned, *)
(* the buffer, and any LastStderr snapshot taken from then on, holds the   *)
(* last min(n, 4096) of all n bytes the process wrote to stderr.           *)
(***************************************************************************)
C2_StopJoinsDrain ==
  /\ (waitCalls > 0 \/ stopPc \in {"joined", "returned"})
       => /\ done
          /\ drainPc = "done"
          /\ ~procAlive
          /\ errRead = errWritten
          /\ errAppended = errWritten
  /\ stopPc = "returned" => stderrBuf = LastBytes(errWritten)
  /\ snapAfterStop => snapshot = LastBytes(errWritten)

\* Stop was called while written bytes were not yet in the buffer, the
\* process wrote more than the buffer holds, and LastStderr ran after Stop
C2_Witness ==
  /\ snapAfterStop
  /\ stopBacklog > 0
  /\ errWritten > stderrBufSize

(***************************************************************************)
(* C3: the sequence numbers of the packets returned by any sequence of     *)
(* Read and ReadMultiple calls, in emission order, each equal the previous *)
(* one plus 1 modulo 2^16.                                                 *)
(***************************************************************************)
C3_SequenceNoGaps ==
  \A i \in 2..Len(rtpEmitted) :
    rtpEmitted[i] = (rtpEmitted[i - 1] + 1) % 65536

(***************************************************************************)
(* C4: every packet built from one NAL unit carries the same timestamp,    *)
(* which is the timestamp before the NAL unit plus 3000 ticks.             *)
(***************************************************************************)
C4_TimestampPerNal ==
  rtpLast.status = "ok" =>
    \A i \in 1..Len(rtpLast.packets) :
      rtpLast.packets[i].Timestamp = nextTS(rtpLast.tsBefore)

\* the NAL unit of the last call was fragmented: it did not fit one packet
\* and nalToRTPMultiple returned its fragments
LastFragmented ==
  /\ rtpLast.op \in {"Read", "ReadMultiple"}
  /\ rtpLast.status = "ok"
  /\ Len(rtpLast.nal.Data) > mtu - 32

RECURSIVE StripConcat(_)
\* the payloads of the packets, each without its first two bytes, concatenated
StripConcat(packets) ==
  IF packets = <<>> THEN <<>>
  ELSE SubSeq(Head(packets).Payload, 3, Len(Head(packets).Payload))
         \o StripConcat(Tail(packets))

\* FU indicator and FU header of every packet
FuBytes(packets) ==
  [i \in 1..Len(packets) |-> SubSeq(packets[i].Payload, 1, 2)]

(***************************************************************************)
(* C5: for a fragmented NAL unit the fragment payloads without their first *)
(* two bytes concatenate to the NAL bytes after the first, and the first   *)
(* byte is determined by the FU indicators and FU headers: no NAL unit     *)
(* with another first byte yields the same indicator and header bytes.     *)
(***************************************************************************)
C5_FragmentRoundTrip ==
  LastFragmented =>
    /\ StripConcat(rtpLast.packets) = Tail(rtpLast.nal.Data)
    /\ \A d \in NalInputs :
         LET other == nalToRTPMultiple(NewNALUnit(d), rtpLast.seqBefore,
                                       rtpLast.tsBefore)
         IN (/\ Len(d) = Len(rtpLast.nal.Data)
             /\ other.status = "ok"
             /\ FuBytes(other.packets) = FuBytes(rtpLast.packets))
              => d[1] = rtpLast.nal.Data[1]

StartBit(h) == h \div 128 = 1
EndBit(h) == (h \div 64) % 2 = 1

(***************************************************************************)
(* C6: the fragments built for a NAL unit longer than mtu-32, in order:    *)
(* each payload starts with an FU indicator of type 28 with the NAL's NRI  *)
(* bits; the Start bit is on the first fragment only, the End bit on the   *)
(* last only; the marker is set exactly on the last fragment of a          *)
(* keyframe-significant NAL; each carries at most mtu-34 bytes of the NAL; *)
(* sequence numbers follow the order.                                      *)
(***************************************************************************)
C6_FragmentStructure ==
  LastFragmented =>
    LET P == rtpLast.packets
        n == Len(P)
    IN \A i \in 1..n :
         /\ P[i].Payload[1] % 32 = 28
         /\ (P[i].Payload[1] \div 32) % 4 = (rtpLast.nal.Data[1] \div 32) % 4
         /\ StartBit(P[i].Payload[2]) <=> i = 1
         /\ EndBit(P[i].Payload[2]) <=> i = n
         /\ P[i].Marker <=> (i = n /\ rtpLast.nal.Keyframe)
         /\ Len(P[i].Payload) - 2 <= mtu - 34
         /\ Len(P[i].Payload) - 2 >= 1
         /\ i > 1 => P[i].SequenceNumber = (P[i - 1].SequenceNumber + 1) % 65536

\* ReadMultiple returned three or more fragments of a NAL unit that is not
\* keyframe-significant
C6_Witness ==
  /\ LastFragmented
  /\ rtpLast.op = "ReadMultiple"
  /\ Len(rtpLast.returned) >= 3
  /\ ~rtpLast.nal.Keyframe

(***************************************************************************)
(* C7: a NAL unit of at most mtu-32 bytes is returned, by Read and by      *)
(* ReadMultiple, as exactly one packet with the marker set and the NAL's   *)
(* bytes as payload; a longer NAL unit is never returned as a packet       *)
(* whose payload is the whole NAL unit.                                    *)
(***************************************************************************)
C7_SinglePacketMode ==
  rtpLast.op \in {"Read", "ReadMultiple"} /\ rtpLast.status # "eof" =>
    /\ Len(rtpLast.nal.Data) <= mtu - 32 =>
         /\ rtpLast.status = "ok"
         /\ Len(rtpLast.returned) = 1
         /\ rtpLast.returned[1].Marker
         /\ rtpLast.returned[1].Payload = rtpLast.nal.Data
    /\ Len(rtpLast.nal.Data) > mtu - 32 =>
         \A i \in 1..Len(rtpLast.returned) :
           /\ rtpLast.returned[i].Payload # rtpLast.nal.Data
           /\ rtpLast.returned[i].Payload[1] % 32 = 28

\* Read returned a NAL unit of exactly mtu-32 bytes, the longest that fits
C7_Witness ==
  /\ rtpLast.op = "Read"
  /\ rtpLast.status = "ok"
  /\ Len(rtpLast.nal.Data) = mtu - 32
  /\ Len(rtpLast.returned) = 1

(***************************************************************************)
(* C8: for all width, height > 0 parseYUV420pFrame succeeds if and only if *)
(* the buffer holds width*height*3/2 bytes (integer division), the frame   *)
(* size VideoReader reads; on success the luma plane has width*height      *)
(* bytes and each chroma plane width*height/4.                             *)
(***************************************************************************)
C8_ParseIffFrameSize ==
  frmResult.kind # "none" =>
    /\ frmResult.kind = "image" <=> BLen(frmData) = (frmW * frmH * 3) \div 2
    /\ frmResult.kind = "image" =>
         /\ BLen(frmResult.Y) = frmW * frmH
         /\ BLen(frmResult.Cb) = (frmW * frmH) \div 4
         /\ BLen(frmResult.Cr) = (frmW * frmH) \div 4

(***************************************************************************)
(* C9: every frame VideoReader.Read returns is made of frameSize           *)
(* consecutive bytes of the process's output that start at a multiple of   *)
(* frameSize; bytes are consumed off the frame grid only by a short read   *)
(* at the end of the stream, after which no byte follows.                  *)
(***************************************************************************)
C9_FrameAligned ==
  /\ vrResult.kind = "frame" =>
       /\ vrResult.off % vidFrameSize = 0
       /\ BConcat(BConcat(vrResult.img.Y, vrResult.img.Cb), vrResult.img.Cr)
            = StreamBytes(vrResult.off, vrResult.off + vidFrameSize)
  /\ outRead % vidFrameSize # 0 => ~procAlive /\ outRead = outWritten

\* Read returned a frame that is not the first of the stream
C9_Witness ==
  /\ vrResult.kind = "frame"
  /\ vrResult.off > 0
  /\ vrFrames >= 2

(***************************************************************************)
(* C10: while no frame has been returned, a Read that meets end-of-stream  *)
(* or a short read retries no sooner than every 50 ms and fails only as a  *)
(* timeout, not before 5 s have passed since the call, with the stderr     *)
(* snapshot of that moment; a full frame read in that time is returned.    *)
(***************************************************************************)
C10_FirstFrameRetry ==
  /\ vrGap >= firstFrameRetryInterval
  /\ (vrResult.kind \in {"eof", "timeout"} /\ vrResult.framesBefore = 0) =>
       /\ vrResult.kind = "timeout"
       /\ vrResult.at - vrResult.start >= firstFrameTimeout
       /\ vrResult.stderr = LastBytes(vrResult.appended)
  /\ vrResult.kind = "parseErr" => vrResult.framesBefore > 0

(***************************************************************************)
(* C11: the first VideoReader.Read returns within the maximum first-frame  *)
(* wait: a call in first-frame mode is never in progress later than 5 s    *)
(* (plus one retry sleep) after it was made, also when the process is      *)
(* alive and has written less than one frame.                              *)
(***************************************************************************)
C11_FirstReadReturnsInTime ==
  (firstFrame /\ vrPc # "idle") =>
    now - vrStart <= firstFrameTimeout + 2 * firstFrameRetryInterval

(***************************************************************************)
(* C12: once a frame has been returned the reader is never in first-frame  *)
(* mode again, and a Read that meets end-of-stream or a short read returns *)
(* the bare io.EOF without a sleep or a retry.                             *)
(***************************************************************************)
C12_NoRetryAfterFirstFrame ==
  /\ vrFrames > 0 => ~firstFrame /\ vrPc \in {"idle", "normal"}
  /\ (/\ vrResult.kind \in {"eof", "timeout", "error"}
      /\ vrResult.framesBefore > 0
      /\ vrResult.met \in {"EOF", "ErrUnexpectedEOF"}) =>
       /\ vrResult.kind = "eof"
       /\ vrResult.stderr = <<>>
       /\ ~vrRetrying

\* a Read after the first frame met a short read and returned io.EOF
C12_Witness ==
  /\ vrResult.kind = "eof"
  /\ vrResult.framesBefore > 0
  /\ vrResult.met = "ErrUnexpectedEOF"

(***************************************************************************)
(* C13: for channels > 0 parseS16LEChunk fails if and only if the length   *)
(* of the input is not a multiple of channels*2; otherwise Data holds      *)
(* len/2 samples and SamplesPerChannel is (len/2)/channels; the empty      *)
(* input succeeds with zero samples.                                       *)
(***************************************************************************)
C13_AlignmentIff ==
  audResult.kind # "none" =>
    /\ audResult.kind = "error" <=> Len(audData) % (audCh * 2) # 0
    /\ audResult.kind = "chunk" =>
         /\ Len(audResult.Data) = Len(audData) \div 2
         /\ audResult.SamplesPerChannel = (Len(audData) \div 2) \div audCh
    /\ audData = <<>> =>
         /\ audResult.kind = "chunk"
         /\ audResult.Data = <<>>
         /\ audResult.SamplesPerChannel = 0

\* an aligned stereo buffer was parsed into a chunk
C13_Witness ==
  /\ audResult.kind = "chunk"
  /\ audCh = 2
  /\ Len(audData) = 4
  /\ audResult.SamplesPerChannel = 1

(***************************************************************************)
(* C14: sample i of a parsed chunk is the signed 16-bit value whose two's  *)
(* complement has input byte 2i as low and byte 2i+1 as high byte, in      *)
(* input order; 32767 and -32768 are preserved; the stereo input           *)
(* 100,-100,200,-200 gives Data = [100,-100,200,-200], Channels = 2 and    *)
(* SamplesPerChannel = 2.                                                  *)
(***************************************************************************)
C14_SamplesLittleEndianSigned ==
  audResult.kind = "chunk" =>
    /\ \A i \in 1..Len(audResult.Data) :
         /\ audResult.Data[i] \in -32768..32767
         /\ (audResult.Data[i] + 65536) % 256 = audData[2 * i - 1]
         /\ ((audResult.Data[i] + 65536) \div 256) % 256 = audData[2 * i]
    /\ (audData = MonoTestBytes /\ audCh = 1) =>
         audResult.Data = <<0, 32767, -32768, 1000>>
    /\ (audData = StereoTestBytes /\ audCh = 2) =>
         /\ audResult.Data = <<100, -100, 200, -200>>
         /\ audResult.Channels = 2
         /\ audResult.SamplesPerChannel = 2

\* the stereo test input was parsed
C14_Witness ==
  /\ audResult.kind = "chunk"
  /\ audData = StereoTestBytes
  /\ audCh = 2

(***************************************************************************)
(* Start codes of a buffer, as Annex B defines them: 00 00 00 01, or       *)
(* 00 00 01 not preceded by a 00 that makes it the four-byte form.         *)
(* Positions are 0-based.                                                  *)
(***************************************************************************)
Code4At(d, p) ==
  p >= 0 /\ p + 4 <= Len(d) /\ SubSeq(d, p + 1, p + 4) = <<0, 0, 0, 1>>

Code3At(d, p) ==
  /\ p >= 0 /\ p + 3 <= Len(d) /\ SubSeq(d, p + 1, p + 3) = <<0, 0, 1>>
  /\ ~Code4At(d, p - 1)

StartCodeAt(d, p) == Code4At(d, p) \/ Code3At(d, p)

\* the position after the start code at p
StartCodeEnd(d, p) == IF Code4At(d, p) THEN p + 4 ELSE p + 3

\* the start codes that begin at or after position a
CodesFrom(d, a) == { q \in a..Len(d) : StartCodeAt(d, q) }

(***************************************************************************)
(* C15: every NAL unit the bitstream parser emits has Type equal to the    *)
(* low 5 bits of its first byte and Keyframe true exactly when the type is *)
(* 5 (IDR slice), 7 (SPS) or 8 (PPS).                                      *)
(***************************************************************************)
C15_TypeAndKeyframe ==
  \A k \in 1..Len(prsResult.nalus) :
    LET u == prsResult.nalus[k]
    IN /\ u.Type = u.Data[1] % 32
       /\ u.Keyframe <=> u.Type \in {5, 7, 8}

\* the parser emitted a PPS and so a keyframe unit
C15_Witness ==
  \E k \in 1..Len(prsResult.nalus) :
    /\ prsResult.nalus[k].Type = 8
    /\ prsResult.nalus[k].Keyframe

(***************************************************************************)
(* C16: every NAL unit parseH264Bitstream emits has as Data exactly the    *)
(* bytes from the end of a start code up to the beginning of the next      *)
(* start code, or up to the end of the buffer when no start code follows.  *)
(***************************************************************************)
C16_UnitIsWholeRegion ==
  \A k \in 1..Len(prsResult.nalus) :
    \E p \in 0..Len(prsData) :
      /\ StartCodeAt(prsData, p)
      /\ LET a == StartCodeEnd(prsData, p)
             b == IF CodesFrom(prsData, a) # {}
                    THEN SetMin(CodesFrom(prsData, a)) ELSE Len(prsData)
         IN prsResult.nalus[k].Data = SubSeq(prsData, a + 1, b)

(***************************************************************************)
(* C17: the parser emits no NAL unit for the region after the last start   *)
(* code of the buffer: every unit is the region between a start code and   *)
(* the next start code found in the same buffer.                           *)
(***************************************************************************)
C17_NoTrailingUnit ==
  \A k \in 1..Len(prsResult.nalus) :
    \E p \in 0..Len(prsData) :
      /\ StartCodeAt(prsData, p)
      /\ CodesFrom(prsData, StartCodeEnd(prsData, p)) # {}
      /\ prsResult.nalus[k].Data =
           SubSeq(prsData, StartCodeEnd(prsData, p) + 1,
                  SetMin(CodesFrom(prsData, StartCodeEnd(prsData, p))))

(***************************************************************************)
(* C18: successive H264VideoReader.Read calls return the NAL units of the  *)
(* stream one per call and in stream order; once the reader has gone on to *)
(* a later read window, every unit that lies wholly inside an earlier      *)
(* window has been returned; io.EOF is reported only when the stream has   *)
(* ended.                                                                  *)
(***************************************************************************)
C18_NoUnitSkipped ==
  /\ \A w \in 0..((hRead \div h264BufLen) - 2) :
       \A k \in 1..Len(hUnits) :
         (/\ UnitStart(hUnits, k) >= w * h264BufLen
          /\ UnitStart(hUnits, k + 1) <= (w + 1) * h264BufLen) =>
           \E i \in 1..Len(hReturned) :
             hReturned[i].Data =
               StreamBytes(UnitStart(hUnits, k) + 4, UnitStart(hUnits, k + 1))
  /\ \A i, j \in 1..Len(hReturned) :
       i < j => hReturned[i].Data[1].lo < hReturned[j].Data[1].lo
  /\ hResult.kind = "eof" => ~procAlive /\ hRead = hWritten

(***************************************************************************)
(* C19: every failure other than end-of-stream that a reader's Read        *)
(* returns (read errors, timeouts, parse failures) carries the stderr      *)
(* snapshot of that moment; end-of-stream is the bare io.EOF.              *)
(***************************************************************************)
C19_FailuresCarryStderr ==
  /\ hResult.kind = "error" =>
       hResult.hasStderr /\ hResult.stderr = LastBytes(hResult.appended)
  /\ hResult.kind = "eof" => ~hResult.hasStderr
  /\ vrResult.kind \in {"error", "timeout", "parseErr"} =>
       vrResult.hasStderr /\ vrResult.stderr = LastBytes(vrResult.appended)
  /\ vrResult.kind = "eof" => ~vrResult.hasStderr

(***************************************************************************)
(* C20: a new RTPReader has sequence counter 0 and timestamp 0 whatever    *)
(* initial SSRC and MTU it is given, and every call that packetizes a NAL  *)
(* unit advances both.                                                     *)
(***************************************************************************)
C20_CountersStartAtZero ==
  /\ rtpCalls = 0 => seq = 0 /\ ts = <<0, 0>>
  /\ rtpLast.status = "ok" => seq # rtpLast.seqBefore /\ ts # rtpLast.tsBefore

(***************************************************************************)
(* C21: GetSPSPPS returns the payload of the first SPS and of the first    *)
(* PPS packetized so far, nil for one not yet seen: every Read or          *)
(* ReadMultiple that packetizes a NAL unit caches an SPS or PPS that is    *)
(* the first of its kind and leaves a value cached earlier as it is.       *)
(***************************************************************************)
C21_FirstSpsPpsCached ==
  [][(rtpCalls' # rtpCalls /\ rtpLast'.status = "ok") =>
       GetSPSPPS' =
         << IF sps = <<>> /\ rtpLast'.nal.Type = 7
              THEN rtpLast'.nal.Data ELSE sps,
            IF pps = <<>> /\ rtpLast'.nal.Type = 8
              THEN rtpLast'.nal.Data ELSE pps >>]_vars

(***************************************************************************)
(* C22: after Stop is called, under fair scheduling the drain task         *)
(* eventually observes end-of-stream and Stop eventually returns, also     *)
(* when the process has left a descendant behind.                          *)
(***************************************************************************)
C22_StopReturns == (stopPc = "cancelled") ~> (done /\ stopPc = "returned")

\* the smallest integer >= n/2
CeilHalf(n) == (n + 1) \div 2

(***************************************************************************)
(* C23: for all positive width and height each chroma plane of a parsed    *)
(* frame holds ceil(width/2)*ceil(height/2) bytes, the chroma stride is    *)
(* ceil(width/2) and the luma stride is width, so the ceil(height/2)       *)
(* chroma rows addressed through the stride lie inside the plane.          *)
(***************************************************************************)
C23_ChromaPlanes ==
  frmResult.kind = "image" =>
    /\ BLen(frmResult.Cb) = CeilHalf(frmW) * CeilHalf(frmH)
    /\ BLen(frmResult.Cr) = CeilHalf(frmW) * CeilHalf(frmH)
    /\ frmResult.CStride = CeilHalf(frmW)
    /\ frmResult.YStride = frmW
    /\ \A row \in 1..CeilHalf(frmH) :
         /\ row * frmResult.CStride <= BLen(frmResult.Cb)
         /\ row * frmResult.CStride <= BLen(frmResult.Cr)

RECURSIVE Positions(_)
\* the stream positions of the bytes of b, in order
Positions(b) ==
  IF b = <<>> THEN <<>>
  ELSE [i \in 1..(Head(b).hi - Head(b).lo) |-> Head(b).lo + i]
         \o Positions(Tail(b))

\* the value of byte p of the 4x2 test frame: Y = 128, Cb = 64, Cr = 192
Fill4x2(p) == IF p <= 8 THEN 128 ELSE IF p <= 10 THEN 64 ELSE 192

\* the values of the bytes of b when the input is the 4x2 test frame
Values4x2(b) == [i \in 1..BLen(b) |-> Fill4x2(Positions(b)[i])]

(***************************************************************************)
(* C24: on success the luma plane is input bytes [0, w*h), the Cb plane    *)
(* the next w*h/4 bytes and the Cr plane the w*h/4 bytes after that, byte  *)
(* for byte; the 4x2 frame filled with Y=128, Cb=64, Cr=192 gives 8 luma   *)
(* bytes of 128 and two 2-byte chroma planes of 64 and of 192.             *)
(***************************************************************************)
C24_PlanesAreInputRanges ==
  frmResult.kind = "image" =>
    LET wh == frmW * frmH
        c == wh \div 4
    IN /\ frmResult.Y = StreamBytes(0, wh)
       /\ frmResult.Cb = StreamBytes(wh, wh + c)
       /\ frmResult.Cr = StreamBytes(wh + c, wh + 2 * c)
       /\ (frmW = 4 /\ frmH = 2) =>
            /\ Values4x2(frmResult.Y) = <<128, 128, 128, 128, 128, 128, 128, 128>>
            /\ Values4x2(frmResult.Cb) = <<64, 64>>
            /\ Values4x2(frmResult.Cr) = <<192, 192>>

\* the 12-byte 4x2 frame was parsed
C24_Witness ==
  /\ frmResult.kind = "image"
  /\ frmW = 4
  /\ frmH = 2
  /\ BLen(frmData) = 12

\* the bytes plane p of image img shows now: its own array, which nothing
\* else writes, or the range of r.buf it refers to
PlaneNow(img, p) ==
  IF img.mem[p].own THEN img[p]
  ELSE BSlice(vidBuf, img.mem[p].lo, img.mem[p].hi)

(***************************************************************************)
(* C25: a frame VideoReader.Read returned owns its planes: whatever later  *)
(* Reads write into the reader's buffer, the buffer the frame was parsed   *)
(* from, every plane of every frame returned so far shows the bytes it     *)
(* had when the frame was returned.                                        *)
(***************************************************************************)
C25_FramesOwnPlanes ==
  \A i \in 1..Len(vrHeld) :
    \A p \in {"Y", "Cb", "Cr"} : PlaneNow(vrHeld[i], p) = vrHeld[i][p]

\* a later Read has overwritten the buffer the first frame was parsed from
C25_Witness ==
  /\ Len(vrHeld) >= 1
  /\ vrCalls >= 2
  /\ vrPc = "idle"
  /\ vidBuf # BConcat(BConcat(vrHeld[1].Y, vrHeld[1].Cb), vrHeld[1].Cr)

\* sampleRate x 0.020 rounded to the nearest integer, halves upwards
Round20ms(sampleRate) == (sampleRate * 20 + 500) \div 1000

(***************************************************************************)
(* C26: AudioReader reads chunks of round(sampleRate x 0.020) x channels   *)
(* x 2 bytes, a sampleRate <= 0 taken as 48000 and channels <= 0 as 2, so  *)
(* every chunk it returns has round(sampleRate x 0.020) samples per        *)
(* channel.                                                                *)
(***************************************************************************)
C26_ChunkIsRounded20ms ==
  LET sr == IF arArgs[1] <= 0 THEN 48000 ELSE arArgs[1]
      ch == IF arArgs[2] <= 0 THEN 2 ELSE arArgs[2]
  IN arCh # 0 =>
       /\ arRate = sr
       /\ arCh = ch
       /\ arBufLen = Round20ms(sr) * ch * 2
       /\ arResult.kind = "chunk" =>
            /\ Len(arResult.Data) = arBufLen \div 2
            /\ arResult.SamplesPerChannel = Round20ms(sr)

(***************************************************************************)
(* C27: PeekNAL returns the current NAL unit without consuming it: it      *)
(* changes neither the stream position nor the sequence number nor the     *)
(* timestamp, and the Read or ReadMultiple that follows a PeekNAL          *)
(* packetizes the NAL unit PeekNAL returned.                               *)
(***************************************************************************)
C27_PeekDoesNotConsume ==
  [][/\ (hCalls' # hCalls /\ hResult'.op = "PeekNAL") =>
          /\ hRead' = hRead
          /\ seq' = seq
          /\ ts' = ts
     /\ (hCalls' # hCalls /\ hResult.op = "PeekNAL" /\ hResult.kind = "nal"
           /\ hResult'.op = "Read" /\ hResult'.kind = "nal") =>
          hResult'.nal = hResult.nal]_vars

\* the step is a call, and the call is op
Called(op) == trkLast'.tick # trkLast.tick /\ trkLast'.op = op

(***************************************************************************)
(* C28: a track's readyState starts as live and changes only from live to  *)
(* ended, through Stop or Close; Stop on an ended track changes nothing;   *)
(* once the track is ended, Read on a video track and ReadAudio on an      *)
(* audio track return io.EOF.                                              *)
(***************************************************************************)
C28_TrackLifecycle ==
  [][/\ trkLast.op = "GetUserMedia" =>
          \A t \in trkLast.tracks : trk[t].readyState = "live"
     /\ \A t \in Made :
          /\ trk'[t].readyState # trk[t].readyState =>
               /\ trk[t].readyState = "live"
               /\ trk'[t].readyState = "ended"
               /\ (Called("Stop") \/ Called("Close") \/ Called("StreamClose"))
               /\ t \in trkLast'.tracks
          /\ ((Called("Stop") \/ Called("Close"))
                /\ trkLast'.on = t /\ trk[t].readyState = "ended") =>
               trk' = trk /\ strm' = strm
          /\ (Called("Read") /\ trkLast'.on = t
                /\ trk[t].readyState = "ended" /\ trk[t].kind = "video") =>
               trkLast'.result = "EOF"
          /\ (Called("ReadAudio") /\ trkLast'.on = t
                /\ trk[t].readyState = "ended" /\ trk[t].kind = "audio") =>
               trkLast'.result = "EOF"]_vars

\* Read was called on the video track after it was stopped while its
\* capture was running
C28_Witness ==
  /\ trkLast.op = "Read"
  /\ trkLast.on = "video"
  /\ trk["video"].readyState = "ended"
  /\ trk["video"].proc = "stopped"
  /\ trkLast.result = "EOF"

(***************************************************************************)
(* C29: after MediaStream.Close returns, every track that was in the       *)
(* stream is ended with its capture process stopped, the stream holds no   *)
(* tracks and Active() is false; a Close that follows changes nothing and  *)
(* returns no error.                                                       *)
(***************************************************************************)
C29_StreamClose ==
  [][Called("StreamClose") =>
       LET s == trkLast'.on
       IN /\ trkLast'.result = "nil"
          /\ \A t \in strm[s].tracks :
               trk'[t].readyState = "ended" /\ trk'[t].proc = "stopped"
          /\ strm'[s].tracks = {}
          /\ ~strm'[s].active
          /\ (trkLast.op = "StreamClose" /\ trkLast.on = s) =>
               trk' = trk /\ strm' = strm]_vars

\* Close returned on the stream GetUserMedia gave, which held two tracks
C29_Witness ==
  /\ trkLast.op = "StreamClose"
  /\ trkLast.on = 1
  /\ trkLast.tracks = {"video", "audio"}
  /\ strm[1].tracks = {}
  /\ \A t \in TrackObjs : trk[t].readyState = "ended"

\* c is a clone of o, or o a clone of c
CloneRelated(c, o) ==
  /\ c # o
  /\ strm[c].made
  /\ strm[o].made
  /\ strm[c].origin = o \/ strm[o].origin = c

(***************************************************************************)
(* C30: Clone returns a stream that holds clones of all the tracks of the  *)
(* original: closing the clone, or stopping or closing one of its tracks   *)
(* through the clone, leaves every track of the original live and          *)
(* readable, and closing the original leaves the tracks of the clone live. *)
(***************************************************************************)
C30_CloneIsIndependent ==
  [][/\ Called("Clone") =>
          {trk[t].kind : t \in strm'[trkLast'.result].tracks}
            = {trk[t].kind : t \in strm[trkLast'.on].tracks}
     /\ Called("StreamClose") =>
          \A o \in Streams :
            CloneRelated(trkLast'.on, o) =>
              \A t \in strm[o].tracks :
                /\ trk'[t].readyState = trk[t].readyState
                /\ Read(trk'[t]) = Read(trk[t])
                /\ ReadAudio(trk'[t]) = ReadAudio(trk[t])]_vars

(***************************************************************************)
(* C31: while a track's Enabled() is false, Read yields black frames and   *)
(* ReadAudio silent audio instead of the captured media; while it is true  *)
(* the captured media is delivered.                                        *)
(***************************************************************************)
C31_DisabledTrackIsMuted ==
  [][\A t \in Made :
       /\ (Called("Read") /\ trkLast'.on = t /\ trk[t].kind = "video"
             /\ trk[t].videoReader /\ trk[t].proc = "running") =>
            trkLast'.result = IF trk[t].enabled THEN "data" ELSE "black"
       /\ (Called("ReadAudio") /\ trkLast'.on = t /\ trk[t].kind = "audio"
             /\ trk[t].audioReader /\ trk[t].proc = "running") =>
            trkLast'.result = IF trk[t].enabled THEN "data" ELSE "silence"]_vars

(***************************************************************************)
(* C32: if GetUserMedia fails, because the creation of the video or of the *)
(* audio track fails or because neither constraint is given, it returns    *)
(* no stream and every track it had created has been stopped: no capture   *)
(* process the call started is left running.                               *)
(***************************************************************************)
C32_FailedGetUserMediaCleansUp ==
  (trkLast.op = "GetUserMedia" /\ trkLast.result # "nil") =>
    /\ \A s \in Streams : ~strm[s].made
    /\ \A t \in TrackObjs :
         /\ trk[t].proc # "running"
         /\ trk[t].kind # "none" =>
              trk[t].readyState = "ended" /\ trk[t].stops = 1

\* the audio track could not be created after the video track had started
C32_Witness ==
  /\ trkLast.op = "GetUserMedia"
  /\ trkLast.result = "errAudio"
  /\ trk["video"].kind = "video"
  /\ trk["video"].proc = "stopped"

(***************************************************************************)
(* C35: every track id and every stream id generated differs from all ids  *)
(* generated before it, so the stream one GetUserMedia call builds from a  *)
(* video track and an audio track holds two tracks, each one found under   *)
(* its own id.                                                             *)
(***************************************************************************)
C35_IdsAreDistinct ==
  /\ \A t, u \in TrackObjs :
       (t # u /\ trk[t].kind # "none" /\ trk[u].kind # "none") =>
         trk[t].id # trk[u].id
  /\ \A s, r \in Streams :
       (s # r /\ strm[s].made /\ strm[r].made) => strm[s].id # strm[r].id
  /\ (trkLast.op = "GetUserMedia" /\ trkLast.result = "nil"
        /\ \A t \in TrackObjs : trk[t].kind # "none") =>
       /\ trkLast.tracks = TrackObjs
       /\ \A t \in TrackObjs :
            {u \in trkLast.tracks : trk[u].id = trk[t].id} = {t}

(***************************************************************************)
(* C38: across any sequence of track Stop/Close, stream Close, AddTrack,   *)
(* RemoveTrack and Clone calls, ffmpegProcess.Stop (and so cmd.Wait) is    *)
(* called on each capture process at most once, and exactly once when its  *)
(* track has been stopped.  Stop holds the track's mutex from its first    *)
(* line to its return, so concurrent calls take effect one after another.  *)
(***************************************************************************)
C38_ProcessStoppedOnce ==
  \A t \in TrackObjs :
    /\ trk[t].stops <= 1
    /\ trk[t].readyState = "ended" => trk[t].stops = 1
    /\ trk[t].readyState = "live" => trk[t].stops = 0

\* a stream and its clone were both closed while they shared a track
C38_Witness ==
  /\ trkLast.op = "StreamClose"
  /\ trkLast.on = 2
  /\ strm[2].origin = 1
  /\ strm[1].made
  /\ ~strm[1].active
  /\ \E t \in trkLast.tracks :
       trk[t].readyState = "ended" /\ trk[t].stops = 1

(***************************************************************************)
(* C37: a Read or ReadAudio that runs while Stop is called on the same     *)
(* track completes against the reader it found or returns io.EOF; under    *)
(* no interleaving does it call a reader that Stop has set to nil.         *)
(***************************************************************************)
C37_ReadNeverCallsNilReader ==
  trkRead.pc = "done" => trkRead.result \in {"data", "EOF", "errKind"}

(***************************************************************************)
(* C36: for every MTU NewRTPReader keeps (1..1500 as given, any other      *)
(* replaced by 1200) and every non-empty NAL unit nalToRTPMultiple         *)
(* terminates: every fragment advances the offset by at least one byte,    *)
(* the fragment size is never zero or negative and no slice is taken       *)
(* outside the NAL unit's bytes.                                           *)
(***************************************************************************)
C36_FragmentationTerminates ==
  (rtpLast.op = "ReadMultiple" /\ rtpLast.status # "eof") =>
    /\ rtpLast.status = "ok"
    /\ Len(rtpLast.packets) > 1 =>
         \A i \in 1..Len(rtpLast.packets) :
           Len(rtpLast.packets[i].Payload) > 2

(***************************************************************************)
(* C33: the discovery of the devices runs at most once: whatever calls to  *)
(* EnumerateDevices, VideoInputDevices, AudioInputDevices and              *)
(* AudioOutputDevices are made, one after another or at the same time,     *)
(* discoverDevices has run exactly once when a call returns, every call    *)
(* sees the same stored devices and error, and a SetConfig after the       *)
(* discovery changes nothing of that.                                      *)
(***************************************************************************)
C33_DiscoveryRunsOnce ==
  /\ cfgHist.discovered <= 1
  /\ cfgHist.seen # {} => cfgHist.discovered = 1
  /\ Cardinality(cfgHist.seen) <= 1
  /\ \A g \in Goroutines :
       (gor[g].op \in EnumOps /\ gor[g].pc = "idle") =>
         gor[g].ret = EnumResult(gor[g].op, cachedDevices, cachedDevErr)

\* both goroutines have returned from a call of the family, one of them a
\* filter, the list is not empty, and the configured path is no longer the
\* one the discovery used
C33_Witness ==
  /\ cfgHist.discovered = 1
  /\ cachedDevices # <<>>
  /\ globalConfig.FFmpegPath # cfgHist.path
  /\ \A g \in Goroutines : gor[g].op \in EnumOps /\ gor[g].pc = "idle"
  /\ \E g \in Goroutines : gor[g].op = "AudioInputDevices"

\* the value GetConfig must return after a SetConfig of cfg
C34_Expected(last) ==
  IF last.set
    THEN [FFmpegPath |-> IF last.cfg.FFmpegPath = "" THEN "ffmpeg"
                         ELSE last.cfg.FFmpegPath,
          Verbose |-> last.cfg.Verbose]
    ELSE [FFmpegPath |-> "ffmpeg", Verbose |-> FALSE]

(***************************************************************************)
(* C34: GetConfig returns the value last given to SetConfig, with an empty *)
(* FFmpegPath replaced by "ffmpeg"; before any SetConfig it returns        *)
(* FFmpegPath "ffmpeg" and Verbose false; so the FFmpegPath it returns is  *)
(* never empty, however the SetConfig and GetConfig calls interleave.      *)
(***************************************************************************)
C34_GetConfigReturnsLastSet ==
  \A g \in Goroutines :
    (gor[g].op = "GetConfig" /\ gor[g].pc = "idle") =>
      /\ gor[g].ret.FFmpegPath # ""
      /\ gor[g].ret = C34_Expected(gor[g].last)

\* a GetConfig has returned after a SetConfig with an empty path, while the
\* other goroutine is inside SetConfig
C34_Witness ==
  \E g, h \in Goroutines :
    /\ gor[g].op = "GetConfig" /\ gor[g].pc = "idle"
    /\ gor[g].last.set /\ gor[g].last.cfg.FFmpegPath = ""
    /\ gor[g].last.cfg.Verbose
    /\ gor[h].op = "SetConfig" /\ gor[h].pc = "setVerbose"

====
